---------------------------- MODULE Spec2Model ----------------------------
(***************************************************************************)
(* Model of the release classification engine of                           *)
(* github-categorized-releases: the matcher language (lib/matcher.js), the *)
(* tree builder (lib/tree-builder.js, classifyReleases) and the global     *)
(* include/exclude step of main (generate-release-page.js).                *)
(*                                                                         *)
(* JavaScript values are encoded as records of one shape per kind so that  *)
(* "key absent" (undefined), null, false, numbers and strings stay         *)
(* distinct.  Text is a sequence of one-character strings.                 *)
(***************************************************************************)
EXTENDS Integers, Sequences, FiniteSets, TLC

(***************************************************************************)
(* Bounds of the model.                                                    *)
(***************************************************************************)
MaxReleases == 3
MaxNodes == 3
MaxListLen == 2
MaxExisting == 201
MaxCategoryReleases == 6
MaxPageSize == 3
MaxCalls == 3
MaxPages == 2
Now == 400

VARIABLES
  pc,                  \* position of the run: "main", "classify", "nodes", "done", "failed"; "eval", "returned" around a direct call
  config,              \* the parsed configuration file
  releaseData,         \* what fetchAllReleases returned
  releases,            \* main's `releases`, the list handed to classifyReleases
  configuredDefaults,  \* classifyReleases: the resolved "defaults" section
  matchedReleaseIds,   \* classifyReleases: ids matched by any category node
  pending,             \* category nodes still to be visited by processNode, next first
  nodes,               \* per category node: effective settings, releaseMatchResults, result.releases
  tree,                \* filteredTree: the kept top-level nodes and the kept children of each node
  unmatchedReleases,
  defaultMaxDisplayed,
  unmatchedMaxDisplayed,
  error,               \* message of the Error that aborted the run, "" when none
  call,                \* a direct call of a function: arguments, locals and result
  files,               \* the file system: main's temporary directory and the output directory
  browser              \* the page of the multi-page script: its globals, caches and pending loads

vars == <<pc, config, releaseData, releases, configuredDefaults, matchedReleaseIds,
          pending, nodes, tree, unmatchedReleases, defaultMaxDisplayed,
          unmatchedMaxDisplayed, error, call, files, browser>>

runVars == <<config, releaseData, releases, configuredDefaults, matchedReleaseIds,
             pending, nodes, tree, unmatchedReleases, defaultMaxDisplayed,
             unmatchedMaxDisplayed, error, files, browser>>

(***************************************************************************)
(* Tagged JavaScript values used for the settings keys.                    *)
(*   t = "undefined" | "null" | "bool" | "num" | "str" | "date" | "nan"   *)
(*       | "arr" | "obj" | "absent" | "rel" | "iso"                        *)
(***************************************************************************)
JsUndefined == [t |-> "undefined", n |-> 0, s |-> "", ms |-> <<>>]
JsNull == [t |-> "null", n |-> 0, s |-> "", ms |-> <<>>]
JsFalse == [t |-> "bool", n |-> 0, s |-> "", ms |-> <<>>]
JsTrue == [t |-> "bool", n |-> 1, s |-> "", ms |-> <<>>]
JsNum(k) == [t |-> "num", n |-> k, s |-> "", ms |-> <<>>]
JsStr(x) == [t |-> "str", n |-> 0, s |-> x, ms |-> <<>>]
JsDate(d) == [t |-> "date", n |-> d, s |-> "", ms |-> <<>>]
JsInvalidDate == [t |-> "nan", n |-> 0, s |-> "", ms |-> <<>>]
JsArray(matchers) == [t |-> "arr", n |-> 0, s |-> "", ms |-> matchers]
JsObject(matcher) == [t |-> "obj", n |-> 0, s |-> "", ms |-> <<matcher>>]

\* A key that the configuration object does not have: Object.hasOwn is
\* false and reading it gives undefined.
JsAbsent == [t |-> "absent", n |-> 0, s |-> "", ms |-> <<>>]
HasOwn(v) == v.t # "absent"
Get(v) == IF v.t = "absent" THEN JsUndefined ELSE v

\* JavaScript truthiness of a tagged value (used by `inheritMode && ...`,
\* `!cutoffDate`).  A Date object, even an invalid one, is truthy.
Truthy(v) ==
  CASE v.t = "undefined" -> FALSE
    [] v.t = "null" -> FALSE
    [] v.t = "bool" -> v.n = 1
    [] v.t = "num" -> v.n # 0
    [] v.t = "str" -> v.s # ""
    [] OTHER -> TRUE

(***************************************************************************)
(* Text and regular expressions.                                           *)
(***************************************************************************)
\* An optional text value: a release field or a regex leaf of a matcher.
Txt(chars) == [def |-> TRUE, s |-> chars]
NoTxt == [def |-> FALSE, s |-> <<>>]

\* An optional boolean: is-prerelease / is-latest leaves, release.isLatest.
Flag(b) == [def |-> TRUE, b |-> b]
NoFlag == [def |-> FALSE, b |-> FALSE]

\* An optional list of nested matchers: match-all / match-any.
List(ms) == [def |-> TRUE, list |-> ms]
NoList == [def |-> FALSE, list |-> <<>>]

\* String(undefined) === "undefined": what RegExp.prototype.test sees when
\* it is handed a missing field.
ToStringJs(v) ==
  IF v.def THEN v.s ELSE <<"u", "n", "d", "e", "f", "i", "n", "e", "d">>

\* Case folding of the 'i' flag.
Lower(c) ==
  CASE c = "V" -> "v"
    [] c = "B" -> "b"
    [] c = "X" -> "x"
    [] OTHER -> c

\* The patterns of the model are literals with an optional leading ^ and an
\* optional trailing $; a pattern holding an unbalanced "(" does not compile.
RegexCompiles(src) == \A i \in 1..Len(src) : src[i] # "("

RegexLiteral(src) ==
  LET from == IF Len(src) > 0 /\ src[1] = "^" THEN 2 ELSE 1
      to == IF Len(src) >= from /\ src[Len(src)] = "$" THEN Len(src) - 1 ELSE Len(src)
  IN  [i \in 1..(to - from + 1) |-> src[from + i - 1]]

\* new RegExp(src, 'i').test(value): unanchored, case-insensitive search.
RegexTest(src, value) ==
  LET str == ToStringJs(value)
      lit == RegexLiteral(src)
      atStart == Len(src) > 0 /\ src[1] = "^"
      atEnd == Len(src) > (IF atStart THEN 1 ELSE 0) /\ src[Len(src)] = "$"
  IN  \E i \in 1..(Len(str) - Len(lit) + 1) :
        /\ \A k \in 1..Len(lit) : Lower(str[i + k - 1]) = Lower(lit[k])
        /\ atStart => i = 1
        /\ atEnd => i + Len(lit) - 1 = Len(str)

\* (release.assets || []).filter(a => !a.isSourceCode).map(a => a.name).join('\n')
NotSourceCode(a) == ~a.isSourceCode

RECURSIVE JoinNames(_)
JoinNames(assets) ==
  IF assets = <<>> THEN <<>>
  ELSE IF Len(assets) = 1 THEN assets[1].name
  ELSE assets[1].name \o <<"\n">> \o JoinNames(Tail(assets))

AssetNames(release) == Txt(JoinNames(SelectSeq(release.assets, NotSourceCode)))

(***************************************************************************)
(* Matchers (lib/matcher.js).                                              *)
(***************************************************************************)
\* A matcher object with no key at all.
NoMatcher ==
  [title |-> NoTxt, titleNot |-> NoTxt, tag |-> NoTxt, tagNot |-> NoTxt,
   body |-> NoTxt, bodyNot |-> NoTxt, assets |-> NoTxt, assetsNot |-> NoTxt,
   isPrerelease |-> NoFlag, isLatest |-> NoFlag,
   matchAll |-> NoList, matchAny |-> NoList]

\* One positive / negative regex leaf: passes when the key is absent.
LeafPasses(pat, value) == pat.def => RegexTest(pat.s, value)

\* A -not leaf that never rejects.
LeafNotPassesAlways(pat, value) == TRUE

LeafNotPasses(pat, value) == pat.def => ~RegexTest(pat.s, value)

\* The ten simple leaves of one matcher object, ANDed.
LeavesPass(release, matcher) ==
  /\ LeafPasses(matcher.title, release.name)
  /\ LeafNotPasses(matcher.titleNot, release.name)
  /\ LeafPasses(matcher.tag, release.tag)
  /\ LeafNotPasses(matcher.tagNot, release.tag)
  /\ LeafPasses(matcher.body, release.body)
  /\ LeafNotPasses(matcher.bodyNot, release.body)
  /\ LeafPasses(matcher.assets, AssetNames(release))
  /\ LeafNotPasses(matcher.assetsNot, AssetNames(release))
  /\ matcher.isPrerelease.def => release.prerelease = matcher.isPrerelease.b
  /\ matcher.isLatest.def => release.isLatest = matcher.isLatest

RECURSIVE testMatcher(_, _)
testMatcher(release, matcher) ==
  LET all == IF matcher.matchAll.def
             THEN \A i \in 1..Len(matcher.matchAll.list) :
                    testMatcher(release, matcher.matchAll.list[i])
             ELSE TRUE
      any == IF matcher.matchAny.def
             THEN \E i \in 1..Len(matcher.matchAny.list) :
                    testMatcher(release, matcher.matchAny.list[i])
             ELSE TRUE
  IN  all /\ any /\ LeavesPass(release, matcher)

\* new RegExp(pattern, 'i') throws a SyntaxError.
LeafThrows(pat) == pat.def /\ ~RegexCompiles(pat.s)

\* The regex leaves in the order testMatcher tests them: pattern, field
\* value, and whether the leaf is a positive one.
LeafOrder(release, matcher) ==
  <<<<matcher.title, release.name, TRUE>>, <<matcher.titleNot, release.name, FALSE>>,
    <<matcher.tag, release.tag, TRUE>>, <<matcher.tagNot, release.tag, FALSE>>,
    <<matcher.body, release.body, TRUE>>, <<matcher.bodyNot, release.body, FALSE>>,
    <<matcher.assets, AssetNames(release), TRUE>>,
    <<matcher.assetsNot, AssetNames(release), FALSE>>>>

\* testMatcher compiles a leaf's pattern when it reaches the leaf and
\* returns false at the first leaf that fails: a pattern behind a failing
\* leaf is never compiled.
LeavesThrow(release, matcher) ==
  LET leaves == LeafOrder(release, matcher)
  IN  \E k \in 1..Len(leaves) :
        /\ LeafThrows(leaves[k][1])
        /\ \A j \in 1..(k - 1) :
             leaves[j][1].def =>
               /\ ~LeafThrows(leaves[j][1])
               /\ RegexTest(leaves[j][1].s, leaves[j][2]) <=> leaves[j][3]

\* Whether testMatcher(release, matcher) throws.  every() stops at the
\* first child that is false and some() at the first that is true;
\* match-any is not evaluated once match-all is false; the leaves are
\* tested whatever the combinators gave.
RECURSIVE testMatcherThrows(_, _)
testMatcherThrows(release, matcher) ==
  LET all == matcher.matchAll.list
      any == matcher.matchAny.list
      Ok(list, j) == ~testMatcherThrows(release, list[j])
      allThrows == \E i \in 1..Len(all) :
                     /\ testMatcherThrows(release, all[i])
                     /\ \A j \in 1..(i - 1) : Ok(all, j) /\ testMatcher(release, all[j])
      allHolds == \A i \in 1..Len(all) : Ok(all, i) /\ testMatcher(release, all[i])
      anyThrows == /\ allHolds
                   /\ \E i \in 1..Len(any) :
                        /\ testMatcherThrows(release, any[i])
                        /\ \A j \in 1..(i - 1) : Ok(any, j) /\ ~testMatcher(release, any[j])
  IN  allThrows \/ anyThrows \/ LeavesThrow(release, matcher)

\* The simple matcher keys that can appear directly on a category or filter.
DirectMatchers(category) ==
  [NoMatcher EXCEPT
     !.title = category.title, !.titleNot = category.titleNot,
     !.tag = category.tag, !.tagNot = category.tagNot,
     !.body = category.body, !.bodyNot = category.bodyNot,
     !.assets = category.assets, !.assetsNot = category.assetsNot,
     !.isPrerelease = category.isPrerelease, !.isLatest = category.isLatest]

\* hasMatchAny without the length test.
HasMatchAnyNoLength(category) == category.matchAny.def

HasMatchAny(category) == category.matchAny.def /\ Len(category.matchAny.list) > 0
HasMatchAll(category) == category.matchAll.def /\ Len(category.matchAll.list) > 0
HasDirectMatchers(category) == DirectMatchers(category) # NoMatcher
HasOwnMatchers(category) ==
  HasMatchAny(category) \/ HasMatchAll(category) \/ HasDirectMatchers(category)

\* "Evaluate own matchers" of matchesCategory: match-any, then match-all,
\* then the direct leaves, each step skipped when its group is not declared.
OwnMatches(release, category) ==
  LET afterAny == IF HasMatchAny(category)
                  THEN \E i \in 1..Len(category.matchAny.list) :
                         testMatcher(release, category.matchAny.list[i])
                  ELSE TRUE
      afterAll == IF afterAny /\ HasMatchAll(category)
                  THEN \A i \in 1..Len(category.matchAll.list) :
                         testMatcher(release, category.matchAll.list[i])
                  ELSE afterAny
  IN  IF afterAll /\ HasDirectMatchers(category)
      THEN testMatcher(release, DirectMatchers(category))
      ELSE afterAll

\* Whether "Evaluate own matchers" throws, in matchesCategory and in
\* matchesFilter alike: nothing is evaluated without own matchers, match-all
\* only once match-any held, the direct leaves only once both held.
OwnMatchersThrow(release, category) ==
  LET any == category.matchAny.list
      all == category.matchAll.list
      Ok(list, j) == ~testMatcherThrows(release, list[j])
      anyThrows == /\ HasMatchAny(category)
                   /\ \E i \in 1..Len(any) :
                        /\ testMatcherThrows(release, any[i])
                        /\ \A j \in 1..(i - 1) : Ok(any, j) /\ ~testMatcher(release, any[j])
      anyHolds == HasMatchAny(category) =>
                    \E i \in 1..Len(any) :
                      /\ testMatcher(release, any[i])
                      /\ \A j \in 1..i : Ok(any, j)
      allThrows == /\ anyHolds
                   /\ HasMatchAll(category)
                   /\ \E i \in 1..Len(all) :
                        /\ testMatcherThrows(release, all[i])
                        /\ \A j \in 1..(i - 1) : Ok(all, j) /\ testMatcher(release, all[j])
      allHolds == HasMatchAll(category) =>
                    \A i \in 1..Len(all) : Ok(all, i) /\ testMatcher(release, all[i])
      directThrows == /\ anyHolds /\ allHolds
                      /\ HasDirectMatchers(category)
                      /\ testMatcherThrows(release, DirectMatchers(category))
  IN  anyThrows \/ allThrows \/ directThrows

ShouldInherit(parentMatches, inheritMode) ==
  Truthy(inheritMode) /\ inheritMode # JsFalse /\ parentMatches.def

\* matchesCategory combining with the parent by AND whatever the mode.
matchesCategoryAlwaysAnd(release, category, parentMatches, inheritMode) ==
  IF ~HasOwnMatchers(category)
  THEN IF ShouldInherit(parentMatches, inheritMode) THEN parentMatches.b ELSE FALSE
  ELSE IF ~ShouldInherit(parentMatches, inheritMode)
       THEN OwnMatches(release, category)
       ELSE parentMatches.b /\ OwnMatches(release, category)

\* matchesCategory with a container taking its parent's result whenever
\* there is one, whatever the inherit mode.
matchesCategoryContainerFollows(release, category, parentMatches, inheritMode) ==
  IF ~HasOwnMatchers(category)
  THEN parentMatches.def /\ parentMatches.b
  ELSE IF ~ShouldInherit(parentMatches, inheritMode)
       THEN OwnMatches(release, category)
       ELSE IF inheritMode = JsStr("or")
            THEN parentMatches.b \/ OwnMatches(release, category)
            ELSE parentMatches.b /\ OwnMatches(release, category)

\* matchesCategory with a container never matching.
matchesCategoryContainerNothing(release, category, parentMatches, inheritMode) ==
  IF ~HasOwnMatchers(category)
  THEN FALSE
  ELSE IF ~ShouldInherit(parentMatches, inheritMode)
       THEN OwnMatches(release, category)
       ELSE IF inheritMode = JsStr("or")
            THEN parentMatches.b \/ OwnMatches(release, category)
            ELSE parentMatches.b /\ OwnMatches(release, category)

\* parentMatches is Flag(b), or NoFlag when there is no parent.
matchesCategory(release, category, parentMatches, inheritMode) ==
  IF ~HasOwnMatchers(category)
  THEN IF ShouldInherit(parentMatches, inheritMode) THEN parentMatches.b ELSE FALSE
  ELSE IF ~ShouldInherit(parentMatches, inheritMode)
       THEN OwnMatches(release, category)
       ELSE IF inheritMode = JsStr("or")
            THEN parentMatches.b \/ OwnMatches(release, category)
            ELSE parentMatches.b /\ OwnMatches(release, category)

\* An optional include/exclude block: NoFilter is an absent (or null) key.
Filter(m) == [def |-> TRUE, m |-> m]
NoFilter == [def |-> FALSE, m |-> NoMatcher]

\* matchesFilter evaluated with the category defaults.
matchesFilterAsCategory(release, filter) ==
  filter.def /\ matchesCategory(release, filter.m, NoFlag, JsFalse)

matchesFilter(release, filter) ==
  IF ~filter.def THEN TRUE
  ELSE IF ~HasMatchAny(filter.m) /\ ~HasMatchAll(filter.m) /\ ~HasDirectMatchers(filter.m)
       THEN TRUE
       ELSE LET afterAny == IF HasMatchAny(filter.m)
                            THEN \E i \in 1..Len(filter.m.matchAny.list) :
                                   testMatcher(release, filter.m.matchAny.list[i])
                            ELSE TRUE
                afterAll == IF afterAny /\ HasMatchAll(filter.m)
                            THEN \A i \in 1..Len(filter.m.matchAll.list) :
                                   testMatcher(release, filter.m.matchAll.list[i])
                            ELSE afterAny
            IN  IF afterAll /\ HasDirectMatchers(filter.m)
                THEN testMatcher(release, DirectMatchers(filter.m))
                ELSE afterAll

(***************************************************************************)
(* Tree building (lib/tree-builder.js).                                    *)
(***************************************************************************)
\* The test relaxed to `value < 0`.
MaxDisplayedValidFromZero(value) ==
  ~(value.t = "num" /\ value.n < 0)

\* validateMaxDisplayed throws exactly when this is FALSE.  The comparison
\* `value < 1` is only modelled for numbers, the values the model feeds it.
MaxDisplayedValid(value) ==
  ~(value.t = "num" /\ value.n < 1)

\* Length in days of the relative units.  setMonth / setFullYear follow the
\* calendar; 30 and 365 stand for a month and a year away from month ends
\* and leap days.
UnitDays(unit) ==
  CASE unit = "d" -> 1
    [] unit = "w" -> 7
    [] unit = "m" -> 30
    [] unit = "y" -> 365

\* A cutoff specification of the configuration is modelled parsed: "rel" is
\* a string of the form -N<unit> (n = N, s = unit), "iso" a string that
\* new Date() understands (n = its day number), "str" any other string.
JsRelative(amount, unit) == [t |-> "rel", n |-> amount, s |-> unit, ms |-> <<>>]
JsIsoDate(day) == [t |-> "iso", n |-> day, s |-> "", ms |-> <<>>]

parseCutoffDate(cutoffDate) ==
  CASE cutoffDate = JsFalse -> JsFalse
    [] cutoffDate # JsFalse /\ cutoffDate.t \in {"undefined", "null", "bool", "num", "str"}
         /\ ~Truthy(cutoffDate) -> JsNull
    [] cutoffDate.t = "rel" -> JsDate(Now - cutoffDate.n * UnitDays(cutoffDate.s))
    [] cutoffDate.t = "iso" -> JsDate(cutoffDate.n)
    [] cutoffDate.t \in {"bool", "num"} /\ Truthy(cutoffDate) -> JsDate(0)
    [] OTHER -> JsInvalidDate

\* The comparison made inclusive.
PublishedAtOrAfter(r, cutoffDate) == cutoffDate.t = "date" /\ r.publishedAt >= cutoffDate.n

\* new Date(r.publishedAt) > cutoffDate; every comparison with an invalid
\* date is false.
PublishedAfter(r, cutoffDate) == cutoffDate.t = "date" /\ r.publishedAt > cutoffDate.n

filterByCutoffDate(rels, cutoffDate) ==
  IF cutoffDate = JsFalse \/ ~Truthy(cutoffDate) THEN rels
  ELSE SelectSeq(rels, LAMBDA r : PublishedAfter(r, cutoffDate))

\* Array.prototype.sort is stable: x goes before the first element it is
\* strictly ordered before, after every element it ties with.
\* The date comparator reversed.
OlderFirst(a, b) == a.publishedAt < b.publishedAt

NewerFirst(a, b) == a.publishedAt > b.publishedAt

LatestThenNewerFirst(a, b) ==
  \/ a.isLatest.b /\ ~b.isLatest.b
  \/ a.isLatest.b = b.isLatest.b /\ a.publishedAt > b.publishedAt

\* The two comparators of the tree builder: a sorts strictly before b.
Before(a, b, latestFirst) ==
  IF latestFirst THEN LatestThenNewerFirst(a, b) ELSE NewerFirst(a, b)

RECURSIVE InsertSorted(_, _, _)
InsertSorted(x, sorted, latestFirst) ==
  IF sorted = <<>> THEN <<x>>
  ELSE IF Before(x, Head(sorted), latestFirst) THEN <<x>> \o sorted
  ELSE <<Head(sorted)>> \o InsertSorted(x, Tail(sorted), latestFirst)

RECURSIVE StableSort(_, _)
StableSort(rels, latestFirst) ==
  IF rels = <<>> THEN <<>>
  ELSE InsertSorted(rels[Len(rels)],
                    StableSort(SubSeq(rels, 1, Len(rels) - 1), latestFirst),
                    latestFirst)

\* The matcher findLatestReleases builds from a latest-match that is not
\* false, null, undefined or "newest".
LatestMatcher(latestMatch) ==
  IF latestMatch.t = "arr" THEN [NoMatcher EXCEPT !.matchAll = List(latestMatch.ms)]
  ELSE IF latestMatch.t = "obj" THEN latestMatch.ms[1]
  ELSE NoMatcher

\* findLatestReleases taking the last release of the list for the newest.
findLatestReleasesOldest(rels, latestMatch) ==
  IF Len(rels) = 0 \/ latestMatch = JsFalse THEN {}
  ELSE IF latestMatch.t \in {"null", "undefined"} \/ latestMatch = JsStr("newest")
       THEN {rels[Len(rels)].id}
  ELSE {rels[i].id : i \in {j \in 1..Len(rels) :
          testMatcher([rels[j] EXCEPT !.isLatest = Flag(j = 1)], LatestMatcher(latestMatch))}}

\* findLatestReleases marking the newest release only, whatever the matchers.
findLatestReleasesNewestOnly(rels, latestMatch) ==
  IF Len(rels) = 0 \/ latestMatch = JsFalse THEN {} ELSE {rels[1].id}

\* The ids findLatestReleases returns.
findLatestReleases(rels, latestMatch) ==
  IF Len(rels) = 0 THEN {}
  ELSE IF latestMatch = JsFalse THEN {}
  ELSE IF latestMatch.t \in {"null", "undefined"} \/ latestMatch = JsStr("newest")
       THEN {rels[1].id}
  ELSE LET tempReleases == [i \in 1..Len(rels) |-> [rels[i] EXCEPT !.isLatest = Flag(i = 1)]]
           matcher == LatestMatcher(latestMatch)
       IN  {tempReleases[i].id : i \in {j \in 1..Len(rels) : testMatcher(tempReleases[j], matcher)}}

\* Whether findLatestReleases throws: only a custom latest-match is
\* evaluated, and only against the releases of a scope that has some.
findLatestReleasesThrows(rels, latestMatch) ==
  /\ Len(rels) > 0
  /\ latestMatch # JsFalse
  /\ latestMatch.t \notin {"null", "undefined"}
  /\ latestMatch # JsStr("newest")
  /\ \E i \in 1..Len(rels) :
       testMatcherThrows([rels[i] EXCEPT !.isLatest = Flag(i = 1)], LatestMatcher(latestMatch))

\* resolveValue with an explicit null falling through to the inherited value.
resolveValueNullInherits(nodeValue, inheritedValue, configuredDefault, hasExplicitValue) ==
  IF ~hasExplicitValue \/ nodeValue = JsNull
  THEN IF inheritedValue # JsUndefined THEN inheritedValue ELSE configuredDefault
  ELSE nodeValue

resolveValue(nodeValue, inheritedValue, configuredDefault, hasExplicitValue) ==
  IF ~hasExplicitValue
  THEN IF inheritedValue # JsUndefined THEN inheritedValue ELSE configuredDefault
  ELSE IF nodeValue = JsNull THEN configuredDefault
  ELSE nodeValue

\* The conversion left out.
FalseStays(value) == value

\* "Convert false to null for max-displayed".
FalseToNull(value) == IF value = JsFalse THEN JsNull ELSE value

\* The tail both processNode and the unmatched bucket run on a scope's
\* release list: cutoff filter, sort by date, mark latest, latest-first sort.
ScopeReleases(rels, cutoffDate, latestMatch) ==
  LET kept == filterByCutoffDate(rels, cutoffDate)
      byDate == StableSort(kept, FALSE)
      latestIds == findLatestReleases(byDate, latestMatch)
      marked == [i \in 1..Len(byDate) |->
                   [byDate[i] EXCEPT !.isLatest = Flag(byDate[i].id \in latestIds)]]
  IN  IF latestIds # {} THEN StableSort(marked, TRUE) ELSE marked

\* Whether that tail throws.
ScopeThrows(rels, cutoffDate, latestMatch) ==
  findLatestReleasesThrows(StableSort(filterByCutoffDate(rels, cutoffDate), FALSE), latestMatch)

(***************************************************************************)
(* Inputs of the model.                                                    *)
(***************************************************************************)
SeqsUpTo(S, n) == UNION {[1..k -> S] : k \in 0..n}

\* The release with a given id, as fetchReleasesFromApi maps it (isLatest is
\* not part of the input).  Ids 1, 2, 3 are "v1" (stable), "V2b" titled
\* "Beta" (prerelease) and "x1" (prerelease, more than a year old).
TagOf(id) ==
  CASE id % 3 = 0 -> <<"x", "1">>
    [] id % 3 # 0 /\ id % 2 = 0 -> <<"V", "2", "b">>
    [] OTHER -> <<"v", "1">>

ReleaseOf(id) ==
  [id |-> id,
   name |-> IF id % 2 = 0 THEN Txt(<<"B", "e", "t", "a">>) ELSE Txt(TagOf(id)),
   tag |-> Txt(TagOf(id)),
   body |-> Txt(<<>>),
   prerelease |-> id % 4 \in {2, 3},
   publishedAt |-> CASE id % 3 = 1 -> Now - 20
                     [] id % 3 = 2 -> Now - 10
                     [] OTHER -> Now - 370,
   assets |-> IF id = 1
              THEN <<[name |-> <<"a">>, isSourceCode |-> FALSE],
                     [name |-> <<"x">>, isSourceCode |-> TRUE]>>
              ELSE <<>>,
   isLatest |-> NoFlag,
   obj |-> "input"]

AllReleases == {ReleaseOf(id) : id \in 1..MaxReleases}

\* Matcher objects without combinators.
Leaves ==
  {NoMatcher,
   [NoMatcher EXCEPT !.tag = Txt(<<"^", "v">>)],
   [NoMatcher EXCEPT !.tagNot = Txt(<<"b", "$">>)],
   [NoMatcher EXCEPT !.title = Txt(<<"b", "e">>)],
   [NoMatcher EXCEPT !.isPrerelease = Flag(TRUE)]}

\* Matcher objects with at most one combinator over leaves, and one more
\* level of nesting above them.
WithAny(m, ms) == [m EXCEPT !.matchAny = List(ms)]
WithAll(m, ms) == [m EXCEPT !.matchAll = List(ms)]

Inner ==
  Leaves
  \cup {WithAny(m, ms) : m \in Leaves, ms \in SeqsUpTo(Leaves, MaxListLen)}
  \cup {WithAll(m, ms) : m \in Leaves, ms \in SeqsUpTo(Leaves, MaxListLen)}

Outer ==
  Inner
  \cup {WithAny(NoMatcher, <<m>>) : m \in Inner}
  \cup {WithAll(NoMatcher, <<m>>) : m \in Inner}
  \cup {WithAll(WithAny(NoMatcher, <<>>), <<m>>) : m \in Leaves}
  \cup {WithAll(WithAny(m, <<>>), <<>>) : m \in Leaves}

\* Releases as findLatestReleases hands them to testMatcher, isLatest set.
MarkedReleases ==
  {[ReleaseOf(id) EXCEPT !.isLatest = Flag(b)] : id \in 1..MaxReleases, b \in BOOLEAN}

\* Releases of a releases file that lacks the optional text fields: the
\* file's records are used as they are (loadReleasesFromFile), and
\* stripHiddenContent leaves a missing body missing.
BareReleases ==
  {[ReleaseOf(id) EXCEPT !.body = NoTxt] : id \in 1..MaxReleases}
  \cup {[ReleaseOf(id) EXCEPT !.name = NoTxt, !.body = NoTxt] : id \in 1..MaxReleases}

\* Leaves on the flags and on the text fields a release can lack.
FieldLeaves ==
  {[NoMatcher EXCEPT !.isLatest = Flag(TRUE)],
   [NoMatcher EXCEPT !.isLatest = Flag(FALSE)],
   [NoMatcher EXCEPT !.isPrerelease = Flag(FALSE)],
   [NoMatcher EXCEPT !.body = Txt(<<"^", "$">>)],
   [NoMatcher EXCEPT !.body = Txt(<<"d", "e", "f">>)],
   [NoMatcher EXCEPT !.bodyNot = Txt(<<"^", "$">>)],
   [NoMatcher EXCEPT !.title = Txt(<<"^", "u", "n">>)],
   [NoMatcher EXCEPT !.assets = Txt(<<"^", "a", "$">>)],
   [NoMatcher EXCEPT !.assetsNot = Txt(<<"x">>)]}

FieldMatchers ==
  FieldLeaves
  \cup {WithAny(m, <<k>>) : m \in FieldLeaves, k \in Leaves}
  \cup {WithAll(m, <<k>>) : m \in Leaves, k \in FieldLeaves}

InheritModes == {JsUndefined, JsFalse, JsTrue, JsStr("and"), JsStr("or")}

\* cutoff-date values of a configuration: false, null, ISO dates on and
\* between the publication dates, relative shorthands, and a string that is
\* neither.
CutoffSpecs ==
  {JsFalse, JsNull, JsIsoDate(Now - 20), JsIsoDate(Now - 15), JsIsoDate(Now - 10),
   JsRelative(10, "d"), JsRelative(2, "w"), JsRelative(1, "y"), JsStr("soon")}

SettingValues ==
  {JsNull, JsFalse, JsTrue, JsNum(40), JsNum(100), JsStr("newest"), JsStr("or"),
   JsDate(Now - 30)}

(***************************************************************************)
(* Category ids of the page generator.  A text is a sequence of one-       *)
(* character strings; category nodes are [name, parent] records numbered   *)
(* as in a run.                                                            *)
(***************************************************************************)
Min(a, b) == IF a < b THEN a ELSE b

\* The nodes whose parent is n, in configuration order.
Children(categories, n) ==
  SelectSeq([i \in 1..Len(categories) |-> i], LAMBDA m : categories[m].parent = n)

\* \w and \s of the characters the model uses.
WordChars == {"B", "b", "X", "x", "V", "v", "1", "_"}
SpaceChars == {" "}

toLowerCase(text) == [i \in 1..Len(text) |-> Lower(text[i])]

RECURSIVE TrimStart(_, _)
TrimStart(text, chars) ==
  IF text # <<>> /\ Head(text) \in chars THEN TrimStart(Tail(text), chars) ELSE text

RECURSIVE TrimEnd(_, _)
TrimEnd(text, chars) ==
  IF text # <<>> /\ text[Len(text)] \in chars
  THEN TrimEnd(SubSeq(text, 1, Len(text) - 1), chars)
  ELSE text

\* String.prototype.trim
trim(text) == TrimEnd(TrimStart(text, SpaceChars), SpaceChars)

\* replace(/[chars]+/g, to): every maximal run of `chars` becomes `to`.
RECURSIVE ReplaceRuns(_, _, _)
ReplaceRuns(text, chars, to) ==
  IF text = <<>> THEN <<>>
  ELSE IF Head(text) \in chars
       THEN <<to>> \o ReplaceRuns(TrimStart(text, chars), chars, to)
       ELSE <<Head(text)>> \o ReplaceRuns(Tail(text), chars, to)

\* replace(/^-|-$/g, ''): one hyphen off the start and one off the end.
TrimHyphens(text) ==
  LET rest == IF text # <<>> /\ Head(text) = "-" THEN Tail(text) ELSE text
  IN  IF rest # <<>> /\ rest[Len(rest)] = "-" THEN SubSeq(rest, 1, Len(rest) - 1) ELSE rest

slugify(text) ==
  LET kept == SelectSeq(trim(toLowerCase(text)),
                        LAMBDA c : c \in WordChars \cup SpaceChars \cup {"-"})
  IN  TrimHyphens(ReplaceRuns(ReplaceRuns(kept, SpaceChars, "-"), {"-"}, "-"))

\* assignCategoryIds joining parent path and slug whatever the path is.
RECURSIVE assignCategoryIdsAlwaysJoined(_, _)
assignCategoryIdsAlwaysJoined(categories, n) ==
  IF categories[n].parent = 0 THEN slugify(categories[n].name)
  ELSE assignCategoryIdsAlwaysJoined(categories, categories[n].parent)
         \o <<"/">> \o slugify(categories[n].name)

\* The id assignCategoryIds gives node n: `parentPath ? path/slug : slug`,
\* the path of a top-level node being ''.
RECURSIVE assignCategoryIds(_, _)
assignCategoryIds(categories, n) ==
  LET slug == slugify(categories[n].name)
      parentPath == IF categories[n].parent = 0 THEN <<>>
                    ELSE assignCategoryIds(categories, categories[n].parent)
  IN  IF parentPath # <<>> THEN parentPath \o <<"/">> \o slug ELSE slug

\* The order in which collectAllCategories visits the nodes of a list: a
\* category, then its subcategories, then the next category.
RECURSIVE VisitOrder(_, _)
VisitOrder(categories, list) ==
  IF list = <<>> THEN <<>>
  ELSE <<Head(list)>> \o VisitOrder(categories, Children(categories, Head(list)))
                      \o VisitOrder(categories, Tail(list))

\* collectAllCategories: result[category.id] = {...} for each visited
\* category in turn, so that the last write under a key stays.  The entry
\* is given by the node it was made from.
collectAllCategories(categories, ids) ==
  LET order == VisitOrder(categories, Children(categories, 0))
      last(id) == CHOOSE k \in 1..Len(order) :
                    /\ ids[order[k]] = id
                    /\ \A j \in 1..Len(order) : ids[order[j]] = id => j <= k
  IN  [id \in {ids[n] : n \in 1..Len(categories)} |-> order[last(id)]]

\* Math.floor in the place of Math.ceil.
Floor(a, b) == a \div b

\* Math.ceil(a / b) for a >= 0, b > 0.
Ceil(a, b) == (a + b - 1) \div b

\* array.slice(start, end), indices counted from 0.
slice(array, start, end) == SubSeq(array, start + 1, Min(end, Len(array)))

\* The page files generateCategoryPages writes for one category that has
\* releases: meta.json's pageCount and, per page-N.html, the releases of
\* its cards and whether the truncation banner is in it.  pageSize is null
\* (page-size: false) or a positive number.
generateCategoryPages(category, pageSize, hasAllReleases) ==
  LET maxDisplayed == category.maxDisplayed
      shouldLimit == /\ maxDisplayed # JsNull /\ maxDisplayed # JsUndefined
                     /\ maxDisplayed # JsFalse
                     /\ Len(category.releases) > maxDisplayed.n
      displayedReleases == IF shouldLimit THEN slice(category.releases, 0, maxDisplayed.n)
                           ELSE category.releases
      effectivePageSize == IF Truthy(pageSize) THEN pageSize.n ELSE Len(displayedReleases)
      pageCount == Ceil(Len(displayedReleases), effectivePageSize)
      truncated == shouldLimit /\ hasAllReleases
  IN  [pageCount |-> pageCount,
       pages |-> [pageNum \in 1..pageCount |->
                    LET startIdx == (pageNum - 1) * effectivePageSize
                        endIdx == Min(startIdx + effectivePageSize, Len(displayedReleases))
                    IN  [releases |-> slice(displayedReleases, startIdx, endIdx),
                         banner |-> pageNum = pageCount /\ truncated]]]

\* Category names of the calls: plain, differing in case or in characters
\* the slug drops, holding spaces and hyphens, and one without any word
\* character.
CategoryNames ==
  {<<"B">>, <<"b", "!">>, <<"!">>, <<"B", " ", " ", "x">>, <<"b", "-", "x">>, <<" ", "-", "x", "-">>}

\* Every tree of n nodes: a node's parent is 0 or an earlier node.
Parents(n) == {p \in [1..n -> 0..n] : \A i \in 1..n : p[i] < i}


(***************************************************************************)
(* Direct calls of the pure functions.                                     *)
(***************************************************************************)
\* A directory is absent, or holds a set of entries.  Nothing exists yet of
\* the temporary directory, and this run has written nothing to the output
\* directory.
NoDir == [exists |-> FALSE, entries |-> {}]
NoFiles == [tempDir |-> NoDir, outputDir |-> NoDir]

\* The page before any category is selected.
NoBrowser ==
  [currentCategoryId |-> "null", currentPage |-> 1,
   releasesList |-> [categoryId |-> "null", pageNum |-> 0],
   url |-> [categoryId |-> "null", page |-> 1],
   metaCache |-> {}, pageCache |-> {}, loads |-> <<>>]

Idle ==
  /\ files = NoFiles
  /\ browser = NoBrowser
  /\ config = [categories |-> <<>>]
  /\ releaseData = <<>>
  /\ releases = <<>>
  /\ configuredDefaults = JsUndefined
  /\ matchedReleaseIds = {}
  /\ pending = <<>>
  /\ nodes = <<>>
  /\ tree = <<>>
  /\ unmatchedReleases = <<>>
  /\ defaultMaxDisplayed = JsUndefined
  /\ unmatchedMaxDisplayed = JsUndefined
  /\ error = ""

InitEval ==
  /\ pc = "eval"
  /\ call = [op |-> "none"]
  /\ Idle

CallTestMatcher ==
  /\ pc = "eval"
  /\ \E release \in AllReleases \cup MarkedReleases \cup BareReleases,
        matcher \in Outer \cup FieldMatchers :
       call' = [op |-> "testMatcher", release |-> release, matcher |-> matcher,
                out |-> testMatcher(release, matcher)]
  /\ pc' = "returned"
  /\ UNCHANGED runVars

CallMatchesCategory ==
  /\ pc = "eval"
  /\ \E release \in AllReleases, category \in Outer,
        parentMatches \in {NoFlag, Flag(TRUE), Flag(FALSE)}, inheritMode \in InheritModes :
       call' = [op |-> "matchesCategory", release |-> release, category |-> category,
                parentMatches |-> parentMatches, inheritMode |-> inheritMode,
                out |-> matchesCategory(release, category, parentMatches, inheritMode)]
  /\ pc' = "returned"
  /\ UNCHANGED runVars

CallMatchesFilter ==
  /\ pc = "eval"
  /\ \E release \in AllReleases, filter \in {NoFilter} \cup {Filter(m) : m \in Outer} :
       call' = [op |-> "matchesFilter", release |-> release, filter |-> filter,
                out |-> matchesFilter(release, filter)]
  /\ pc' = "returned"
  /\ UNCHANGED runVars

\* processNode calls resolveValue(node[key], inherited, default, hasOwn(node, key)).
CallResolveValue ==
  /\ pc = "eval"
  /\ \E nodeValue \in SettingValues \cup {JsAbsent},
        inheritedValue \in SettingValues \cup {JsUndefined},
        configuredDefault \in SettingValues :
       call' = [op |-> "resolveValue", nodeValue |-> nodeValue,
                inheritedValue |-> inheritedValue, configuredDefault |-> configuredDefault,
                out |-> resolveValue(Get(nodeValue), inheritedValue, configuredDefault,
                                     HasOwn(nodeValue))]
  /\ pc' = "returned"
  /\ UNCHANGED runVars

\* filterByCutoffDate(releases, parseCutoffDate(spec)), as processNode and
\* the unmatched bucket call it.
CallFilterByCutoffDate ==
  /\ pc = "eval"
  /\ \E n \in 0..MaxReleases, spec \in CutoffSpecs :
     \E rels \in {[i \in 1..n |-> ReleaseOf(i)], [i \in 1..n |-> ReleaseOf(n + 1 - i)]} :
       call' = [op |-> "filterByCutoffDate", releases |-> rels, spec |-> spec,
                cutoffDate |-> parseCutoffDate(spec),
                out |-> filterByCutoffDate(rels, parseCutoffDate(spec))]
  /\ pc' = "returned"
  /\ UNCHANGED runVars

\* assignCategoryIds(tree) followed by collectAllCategories(tree), as the
\* page generators call them.
CallAssignCategoryIds ==
  /\ pc = "eval"
  /\ \E n \in 1..MaxNodes :
     \E names \in [1..n -> CategoryNames], parents \in Parents(n) :
       LET categories == [i \in 1..n |-> [name |-> names[i], parent |-> parents[i]]]
           ids == [i \in 1..n |-> assignCategoryIds(categories, i)]
       IN  call' = [op |-> "assignCategoryIds", categories |-> categories, ids |-> ids,
                    out |-> collectAllCategories(categories, ids)]
  /\ pc' = "returned"
  /\ UNCHANGED runVars

\* generateCategoryPages for one category of allCategories with at least
\* one release (a category without releases leaves the loop turn before
\* any release page is written).
CallGenerateCategoryPages ==
  /\ pc = "eval"
  /\ \E total \in 1..MaxCategoryReleases,
        maxDisplayed \in {JsNull} \cup {JsNum(n) : n \in 1..(MaxCategoryReleases + 1)},
        pageSize \in {JsNull} \cup {JsNum(n) : n \in 1..MaxPageSize},
        hasAllReleases \in BOOLEAN :
       LET category == [releases |-> [i \in 1..total |-> i], maxDisplayed |-> maxDisplayed]
       IN  call' = [op |-> "generateCategoryPages", category |-> category,
                    pageSize |-> pageSize, hasAllReleases |-> hasAllReleases,
                    out |-> generateCategoryPages(category, pageSize, hasAllReleases)]
  /\ pc' = "returned"
  /\ UNCHANGED runVars

NextEval ==
  \/ CallGenerateCategoryPages
  \/ CallAssignCategoryIds
  \/ CallTestMatcher
  \/ CallMatchesCategory
  \/ CallMatchesFilter
  \/ CallResolveValue
  \/ CallFilterByCutoffDate

SpecEval == InitEval /\ [][NextEval]_vars

(***************************************************************************)
(* fetchAllReleases.  The releases the source holds are numbered           *)
(* 1..existing in the order the source lists them; `call` holds the        *)
(* arguments and the locals of fetchReleasesFromApi between two page       *)
(* requests.                                                               *)
(***************************************************************************)
perPage == 100

\* The body of the response to ?page=page&per_page=perPage.
PageData(existing, page) ==
  LET from == (page - 1) * perPage
      count == IF existing > from THEN Min(perPage, existing - from) ELSE 0
  IN  [i \in 1..count |-> from + i]

\* The loop over a page that leaves it once maxReleases is reached.
PushPageThenStop(state, data, maxReleases) ==
  LET room == IF maxReleases = JsFalse THEN Len(data)
              ELSE Min(Len(data), maxReleases.n - Len(state.releases))
      pushed == IF room > 0 THEN room ELSE 0
  IN  [releases |-> state.releases \o SubSeq(data, 1, pushed),
       totalCount |-> state.totalCount + pushed]

\* `for (const r of data)`: every entry is counted; an entry is pushed
\* while maxReleases is false or releases.length is below it, that is, the
\* entries of the page up to the room left.
PushPage(state, data, maxReleases) ==
  LET room == IF maxReleases = JsFalse THEN Len(data)
              ELSE Min(Len(data), maxReleases.n - Len(state.releases))
      pushed == IF room > 0 THEN room ELSE 0
  IN  [releases |-> state.releases \o SubSeq(data, 1, pushed),
       totalCount |-> state.totalCount + Len(data)]

\* site.max-releases as main hands it over: false, or a positive integer
\* (main exits on a value below 1); 1000 is main's default.
MaxReleasesValues == {JsFalse, JsNum(1), JsNum(perPage), JsNum(perPage + 50), JsNum(1000)}

InitFetch ==
  /\ pc = "fetching"
  /\ \E source \in {"api", "file"}, existing \in 0..MaxExisting,
        maxReleases \in MaxReleasesValues :
       call = [op |-> "fetchAllReleases", source |-> source, existing |-> existing,
               maxReleases |-> maxReleases, page |-> 1, releases |-> <<>>, totalCount |-> 0]
  /\ Idle

\* fetchAllReleases with --releases-file: the whole file, then the slice.
LoadFromFile ==
  /\ pc = "fetching"
  /\ call.source = "file"
  /\ LET all == [i \in 1..call.existing |-> i]
         limited == IF call.maxReleases # JsFalse /\ Len(all) > call.maxReleases.n
                    THEN SubSeq(all, 1, call.maxReleases.n)
                    ELSE all
     IN  releaseData' = [releases |-> limited, totalCount |-> Len(all),
                         listedCount |-> Len(limited)]
  /\ pc' = "returned"
  /\ UNCHANGED <<config, releases, configuredDefaults, matchedReleaseIds, pending, nodes,
                 tree, unmatchedReleases, defaultMaxDisplayed, unmatchedMaxDisplayed,
                 error, call, files, browser>>

\* One turn of `while (true)` with an ok response.
FetchPage ==
  /\ pc = "fetching"
  /\ call.source = "api"
  /\ LET data == PageData(call.existing, call.page)
         pushed == PushPage([releases |-> call.releases, totalCount |-> call.totalCount],
                            data, call.maxReleases)
     IN  IF Len(data) = 0
         THEN /\ pc' = "fetched"
              /\ call' = call
         ELSE /\ pc' = IF Len(data) < perPage THEN "fetched" ELSE "fetching"
              /\ call' = [call EXCEPT !.releases = pushed.releases,
                                      !.totalCount = pushed.totalCount,
                                      !.page = IF Len(data) < perPage THEN @ ELSE @ + 1]
  /\ UNCHANGED runVars

\* `if (!response.ok) throw`
FetchError ==
  /\ pc = "fetching"
  /\ call.source = "api"
  /\ pc' = "failed"
  /\ error' = "GitHub API error"
  /\ UNCHANGED <<config, releaseData, releases, configuredDefaults, matchedReleaseIds,
                 pending, nodes, tree, unmatchedReleases, defaultMaxDisplayed,
                 unmatchedMaxDisplayed, call, files, browser>>

\* After the loop: map the releases and return.
ReturnFetched ==
  /\ pc = "fetched"
  /\ releaseData' = [releases |-> call.releases, totalCount |-> call.totalCount,
                     listedCount |-> Len(call.releases)]
  /\ pc' = "returned"
  /\ UNCHANGED <<config, releases, configuredDefaults, matchedReleaseIds, pending, nodes,
                 tree, unmatchedReleases, defaultMaxDisplayed, unmatchedMaxDisplayed,
                 error, call, files, browser>>

NextFetch ==
  \/ LoadFromFile
  \/ FetchPage
  \/ FetchError
  \/ ReturnFetched

SpecFetch == InitFetch /\ [][NextFetch]_vars

(***************************************************************************)
(* The end of main: classification, then the content written to a          *)
(* temporary directory that is copied to the output directory.  `call`     *)
(* holds what main was started with and what it has thrown.                *)
(***************************************************************************)
\* rmSync skipped.
rmSyncKeeps(fs) == fs

\* fs.rmSync(tempDir, { recursive: true, force: true })
rmSync(fs) == [fs EXCEPT !.tempDir = NoDir]

\* fs.writeFileSync / fs.copyFileSync into a directory.
writeFile(dir, name) == [dir EXCEPT !.entries = @ \cup {name}]

\* What the try block writes to the temporary directory, in order.
ContentSteps(multiPage, favicon) ==
  (IF multiPage THEN <<"index.html", "category pages">> ELSE <<"index.html">>)
    \o <<"style.css", "script.js">>
    \o (IF favicon = "none" THEN <<>> ELSE <<"favicon">>)

Throw(where) == [call EXCEPT !.thrown = where]

InitOutput ==
  /\ pc = "classifying"
  /\ \E multiPage \in BOOLEAN, favicon \in {"none", "present", "missing"} :
       call = [op |-> "main", multiPage |-> multiPage, favicon |-> favicon,
               written |-> 0, thrown |-> "nothing"]
  /\ Idle

\* classifyReleases returns or throws (see ClassifyStart, ProcessNode,
\* Finish); the favicon check and mkdtempSync follow.
Classified ==
  /\ pc = "classifying"
  /\ \/ /\ pc' = "exited"
        /\ call' = Throw("classification")
        /\ UNCHANGED files
     \/ /\ call.favicon = "missing"
        /\ pc' = "exited"
        /\ call' = Throw("favicon check")
        /\ UNCHANGED files
     \/ /\ call.favicon # "missing"
        /\ pc' = "generating"
        /\ files' = [files EXCEPT !.tempDir = [exists |-> TRUE, entries |-> {}]]
        /\ UNCHANGED call
  /\ UNCHANGED <<config, releaseData, releases, configuredDefaults, matchedReleaseIds,
                 pending, nodes, tree, unmatchedReleases, defaultMaxDisplayed,
                 unmatchedMaxDisplayed, error, browser>>

\* One step of content generation: the content is written to the
\* temporary directory, or generating it throws.
GenerateContent ==
  /\ pc = "generating"
  /\ call.written < Len(ContentSteps(call.multiPage, call.favicon))
  /\ \/ /\ files' = [files EXCEPT !.tempDir =
                       writeFile(@, ContentSteps(call.multiPage, call.favicon)[call.written + 1])]
        /\ call' = [call EXCEPT !.written = @ + 1]
        /\ pc' = pc
     \/ /\ call' = Throw("content generation")
        /\ pc' = "finally"
        /\ UNCHANGED files
  /\ UNCHANGED <<config, releaseData, releases, configuredDefaults, matchedReleaseIds,
                 pending, nodes, tree, unmatchedReleases, defaultMaxDisplayed,
                 unmatchedMaxDisplayed, error, browser>>

\* fs.mkdirSync(CONFIG.outputDir), which may throw.
MakeOutputDir ==
  /\ pc = "generating"
  /\ call.written = Len(ContentSteps(call.multiPage, call.favicon))
  /\ \/ /\ files' = [files EXCEPT !.outputDir = [exists |-> TRUE, entries |-> {}]]
        /\ pc' = "copying"
        /\ UNCHANGED call
     \/ /\ call' = Throw("copy")
        /\ pc' = "finally"
        /\ UNCHANGED files
  /\ UNCHANGED <<config, releaseData, releases, configuredDefaults, matchedReleaseIds,
                 pending, nodes, tree, unmatchedReleases, defaultMaxDisplayed,
                 unmatchedMaxDisplayed, error, browser>>

\* copyDirRecursive: the entries of the temporary directory one after the
\* other, in the order readdirSync lists them; a copy may throw.
CopyEntry ==
  /\ pc = "copying"
  /\ \/ \E name \in files.tempDir.entries \ files.outputDir.entries :
          /\ files' = [files EXCEPT !.outputDir = writeFile(@, name)]
          /\ UNCHANGED <<pc, call>>
     \/ /\ files.tempDir.entries \ files.outputDir.entries # {}
        /\ call' = Throw("copy")
        /\ pc' = "finally"
        /\ UNCHANGED files
     \/ /\ files.tempDir.entries \ files.outputDir.entries = {}
        /\ pc' = "finally"
        /\ UNCHANGED <<call, files, browser>>
  /\ UNCHANGED <<config, releaseData, releases, configuredDefaults, matchedReleaseIds,
                 pending, nodes, tree, unmatchedReleases, defaultMaxDisplayed,
                 unmatchedMaxDisplayed, error, browser>>

\* The finally block, then the end of main or main().catch.
Finally ==
  /\ pc = "finally"
  /\ files' = rmSync(files)
  /\ pc' = "exited"
  /\ UNCHANGED <<config, releaseData, releases, configuredDefaults, matchedReleaseIds,
                 pending, nodes, tree, unmatchedReleases, defaultMaxDisplayed,
                 unmatchedMaxDisplayed, error, call, browser>>

NextOutput ==
  \/ Classified
  \/ GenerateContent
  \/ MakeOutputDir
  \/ CopyEntry
  \/ Finally

SpecOutput == InitOutput /\ [][NextOutput]_vars

(***************************************************************************)
(* The multi-page browser script.  browser.loads holds one entry per       *)
(* selectCategory call, in call order: its arguments and where its         *)
(* doSelectCategory stands ("timer": not started, "meta" / "page": at the  *)
(* await of a request in flight, "done", "failed").  Code between two      *)
(* awaits runs without interruption, and an await of a cached value        *)
(* resumes before any timer or response is handled.                        *)
(***************************************************************************)
CategoryIds == {"index", "a", "b"}

\* categoryData[categoryId].isIndex
isIndex(categoryId) == categoryId = "index"

\* pageCount of the meta.json the site serves for a category.
pageCountOf(categoryId) == IF categoryId = "a" THEN MaxPages ELSE 1

\* Math.min(Math.max(1, page), meta.pageCount)
Clamp(page, pageCount) == Min(IF page < 1 THEN 1 ELSE page, pageCount)

SetLoad(b, i, at, pageNum) ==
  [b EXCEPT !.loads[i].at = at, !.loads[i].pageNum = pageNum]

\* The end of doSelectCategory: the globals, the release list and the URL
\* are set together.
Show(b, i, pageNum) ==
  [SetLoad(b, i, "done", pageNum) EXCEPT
     !.currentCategoryId = b.loads[i].categoryId,
     !.currentPage = pageNum,
     !.releasesList = [categoryId |-> b.loads[i].categoryId, pageNum |-> pageNum],
     !.url = [categoryId |-> b.loads[i].categoryId, page |-> pageNum]]

\* After `await fetchMeta`: clamp the page and fetch it, or take it from
\* the cache and finish.
AfterMeta(b, i) ==
  LET pageNum == Clamp(b.loads[i].page, pageCountOf(b.loads[i].categoryId))
  IN  IF <<b.loads[i].categoryId, pageNum>> \in b.pageCache
      THEN Show(b, i, pageNum)
      ELSE SetLoad(b, i, "page", pageNum)

\* The start of doSelectCategory.
Started(b, i) ==
  IF isIndex(b.loads[i].categoryId)
  THEN [Show(b, i, 1) EXCEPT !.releasesList = [categoryId |-> b.loads[i].categoryId,
                                                pageNum |-> 0]]
  ELSE IF b.loads[i].categoryId \in b.metaCache
       THEN AfterMeta(b, i)
       ELSE SetLoad(b, i, "meta", 0)

InitBrowser ==
  /\ pc = "browsing"
  /\ call = [op |-> "none"]
  /\ Idle

\* selectCategory(categoryId, page): from the sidebar, a subcategory link
\* or popstate.
SelectCategory ==
  /\ pc = "browsing"
  /\ Len(browser.loads) < MaxCalls
  /\ \E categoryId \in CategoryIds, page \in 1..(MaxPages + 1) :
       browser' = [browser EXCEPT !.loads =
                     Append(@, [categoryId |-> categoryId, page |-> page,
                                at |-> "timer", pageNum |-> 0])]
  /\ UNCHANGED <<pc, config, releaseData, releases, configuredDefaults, matchedReleaseIds,
                 pending, nodes, tree, unmatchedReleases, defaultMaxDisplayed,
                 unmatchedMaxDisplayed, error, call, files>>

\* goToPage(page) from a pagination button of the displayed page.
GoToPage ==
  /\ pc = "browsing"
  /\ Len(browser.loads) < MaxCalls
  /\ browser.releasesList.pageNum > 0
  /\ \E page \in 1..pageCountOf(browser.releasesList.categoryId) :
       /\ page # browser.releasesList.pageNum
       /\ IF page # browser.currentPage
          THEN browser' = [browser EXCEPT !.loads =
                             Append(@, [categoryId |-> browser.currentCategoryId,
                                        page |-> page, at |-> "timer", pageNum |-> 0])]
          ELSE browser' = browser
  /\ UNCHANGED <<pc, config, releaseData, releases, configuredDefaults, matchedReleaseIds,
                 pending, nodes, tree, unmatchedReleases, defaultMaxDisplayed,
                 unmatchedMaxDisplayed, error, call, files>>

\* The timer of the oldest call not yet started fires.
TimerFires ==
  /\ pc = "browsing"
  /\ \E i \in 1..Len(browser.loads) :
       /\ browser.loads[i].at = "timer"
       /\ \A j \in 1..(i - 1) : browser.loads[j].at # "timer"
       /\ browser' = Started(browser, i)
  /\ UNCHANGED <<pc, config, releaseData, releases, configuredDefaults, matchedReleaseIds,
                 pending, nodes, tree, unmatchedReleases, defaultMaxDisplayed,
                 unmatchedMaxDisplayed, error, call, files>>

\* The response to a meta.json request arrives.
MetaArrives ==
  /\ pc = "browsing"
  /\ \E i \in 1..Len(browser.loads) :
       /\ browser.loads[i].at = "meta"
       /\ browser' = AfterMeta([browser EXCEPT !.metaCache = @ \cup {browser.loads[i].categoryId}], i)
  /\ UNCHANGED <<pc, config, releaseData, releases, configuredDefaults, matchedReleaseIds,
                 pending, nodes, tree, unmatchedReleases, defaultMaxDisplayed,
                 unmatchedMaxDisplayed, error, call, files>>

\* The response to a page-N.html request arrives.
PageArrives ==
  /\ pc = "browsing"
  /\ \E i \in 1..Len(browser.loads) :
       /\ browser.loads[i].at = "page"
       /\ browser' = Show([browser EXCEPT !.pageCache =
                             @ \cup {<<browser.loads[i].categoryId, browser.loads[i].pageNum>>}],
                          i, browser.loads[i].pageNum)
  /\ UNCHANGED <<pc, config, releaseData, releases, configuredDefaults, matchedReleaseIds,
                 pending, nodes, tree, unmatchedReleases, defaultMaxDisplayed,
                 unmatchedMaxDisplayed, error, call, files>>

\* A request fails: the catch block puts the error message in the list.
LoadFails ==
  /\ pc = "browsing"
  /\ \E i \in 1..Len(browser.loads) :
       /\ browser.loads[i].at \in {"meta", "page"}
       /\ browser' = [SetLoad(browser, i, "failed", 0) EXCEPT
                        !.releasesList = [categoryId |-> "error", pageNum |-> 0]]
  /\ UNCHANGED <<pc, config, releaseData, releases, configuredDefaults, matchedReleaseIds,
                 pending, nodes, tree, unmatchedReleases, defaultMaxDisplayed,
                 unmatchedMaxDisplayed, error, call, files>>

NextBrowser ==
  \/ SelectCategory
  \/ GoToPage
  \/ TimerFires
  \/ MetaArrives
  \/ PageArrives
  \/ LoadFails

SpecBrowser == InitBrowser /\ [][NextBrowser]_vars

(***************************************************************************)
(* A generation run: main applies the global filters and calls             *)
(* classifyReleases, which visits the category nodes depth first.          *)
(* Category nodes are numbered 1..Len(config.categories); parent = 0 marks *)
(* a top-level category and the children of a node are the nodes naming it *)
(* as parent, in index order.                                              *)
(***************************************************************************)
NoError == [context |-> "", name |-> ""]

NotProcessed ==
  [processed |-> FALSE, latestMatch |-> JsUndefined, cutoffDate |-> JsUndefined,
   maxDisplayed |-> JsUndefined, inheritMode |-> JsUndefined,
   releaseMatchResults |-> {}, releases |-> <<>>]

\* Release records are JavaScript objects: `obj` tells which object a record
\* is.  The fetched list holds the objects "input"; a spread creates a new
\* object, named after the scope that creates it.  Objects are told apart
\* by obj and id together.
SameObject(a, b) == a.obj = b.obj /\ a.id = b.id

\* The release pushed as it is, without a spread.
CloneShared(release, owner) == release

\* { ...release, isLatest: false }
Clone(release, owner) == [release EXCEPT !.isLatest = Flag(FALSE), !.obj = owner]

\* `release.isLatest = ...` writes to the object: every list of the state
\* that holds an object of `marked` sees the value written there.
WriteIsLatest(list, marked) ==
  [i \in 1..Len(list) |->
     IF \E k \in 1..Len(marked) : SameObject(marked[k], list[i])
     THEN [list[i] EXCEPT !.isLatest =
             marked[CHOOSE k \in 1..Len(marked) : SameObject(marked[k], list[i])].isLatest]
     ELSE list[i]]

Ids(rels) == {rels[i].id : i \in 1..Len(rels)}

\* Apply global include/exclude filters (main).  The step before it,
\* stripHiddenContent, leaves a release with an empty body as it is, and
\* every release of the model has an empty body; the fetched list is never
\* empty, so main does not stop at `totalCount === 0`.
globalFilter(rels, includeFilter, excludeFilter) ==
  IF includeFilter.def \/ excludeFilter.def
  THEN SelectSeq(rels, LAMBDA r : matchesFilter(r, includeFilter)
                                   /\ ~matchesFilter(r, excludeFilter))
  ELSE rels

\* Whether that filter step throws: exclude is only evaluated for a release
\* that include let through.
globalFilterThrows(rels, includeFilter, excludeFilter) ==
  /\ includeFilter.def \/ excludeFilter.def
  /\ \E i \in 1..Len(rels) :
       \/ includeFilter.def /\ OwnMatchersThrow(rels[i], includeFilter.m)
       \/ /\ ~(includeFilter.def /\ OwnMatchersThrow(rels[i], includeFilter.m))
          /\ matchesFilter(rels[i], includeFilter)
          /\ excludeFilter.def /\ OwnMatchersThrow(rels[i], excludeFilter.m)

\* The SyntaxError of new RegExp, which names the pattern and no category.
InvalidRegex == [context |-> "Invalid regular expression", name |-> ""]

ApplyGlobalFilters ==
  /\ pc = "main"
  /\ IF globalFilterThrows(releases, config.include, config.exclude)
     THEN /\ pc' = "failed"
          /\ error' = InvalidRegex
          /\ UNCHANGED releases
     ELSE /\ releases' = globalFilter(releases, config.include, config.exclude)
          /\ pc' = "classify"
          /\ error' = error
  /\ UNCHANGED <<config, releaseData, configuredDefaults, matchedReleaseIds, pending,
                 nodes, tree, unmatchedReleases, defaultMaxDisplayed,
                 unmatchedMaxDisplayed, call, files, browser>>

\* main hands classifyReleases the three keys of the "defaults" section;
\* inheritParentMatchers is never passed and takes its built-in default.
ConfiguredDefaults(defaults) ==
  [latestMatch |-> IF Get(defaults.latestMatch) # JsUndefined
                   THEN Get(defaults.latestMatch) ELSE JsStr("newest"),
   cutoffDate |-> IF Get(defaults.cutoffDate) # JsUndefined
                  THEN parseCutoffDate(Get(defaults.cutoffDate))
                  ELSE parseCutoffDate(JsRelative(1, "y")),
   maxDisplayed |-> IF Get(defaults.maxDisplayed) # JsUndefined
                    THEN Get(defaults.maxDisplayed) ELSE JsNum(100),
   inheritParentMatchers |-> JsFalse]

\* Entry of classifyReleases: resolve and validate the defaults.
ClassifyStart ==
  /\ pc = "classify"
  /\ LET cd == ConfiguredDefaults(config.defaults)
     IN  IF MaxDisplayedValid(cd.maxDisplayed)
         THEN /\ configuredDefaults' = cd
              /\ pending' = Children(config.categories, 0)
              /\ pc' = "nodes"
              /\ error' = error
         ELSE /\ pc' = "failed"
              /\ error' = [context |-> "defaults.max-displayed", name |-> ""]
              /\ UNCHANGED <<configuredDefaults, pending>>
  /\ matchedReleaseIds' = {}
  /\ UNCHANGED <<config, releaseData, releases, nodes, tree, unmatchedReleases,
                 defaultMaxDisplayed, unmatchedMaxDisplayed, call, files, browser>>

\* Children handed undefined for every inherited setting.
InheritedNothing(node, field) == JsUndefined

\* The value a node inherits for a setting: its parent's effective value.
Inherited(node, field) ==
  IF node.parent = 0 THEN JsUndefined ELSE nodes[node.parent][field]

\* matchedReleaseIds.add moved inside `if (showReleases)`.
addMatchedIfShown(matched, matchedHere, showReleases) ==
  IF showReleases THEN matched \cup matchedHere ELSE matched

\* The matchedReleaseIds.add of processNode.
addMatched(matched, matchedHere, showReleases) == matched \cup matchedHere

\* The body of processNode for one node, given its arguments: the four
\* inherited settings and the parent's releaseMatchResults.  It gives the
\* effective settings, the match result of every release and the node's
\* release list.
processNodeWith(node, inherited, parentReleaseMatches) ==
  LET effectiveLatestMatch ==
        resolveValue(Get(node.latestMatch), inherited.latestMatch,
                     configuredDefaults.latestMatch, HasOwn(node.latestMatch))
      nodeCutoffDate ==
        IF HasOwn(node.cutoffDate) THEN parseCutoffDate(node.cutoffDate) ELSE JsUndefined
      effectiveCutoffDate ==
        resolveValue(nodeCutoffDate, inherited.cutoffDate,
                     configuredDefaults.cutoffDate, HasOwn(node.cutoffDate))
      effectiveMaxDisplayed ==
        FalseToNull(resolveValue(Get(node.maxDisplayed), inherited.maxDisplayed,
                                 configuredDefaults.maxDisplayed, HasOwn(node.maxDisplayed)))
      effectiveInheritMode ==
        resolveValue(Get(node.inheritParentMatchers), inherited.inheritMode,
                     configuredDefaults.inheritParentMatchers,
                     HasOwn(node.inheritParentMatchers))
      parentMatch(r) ==
        IF node.parent = 0 THEN NoFlag
        ELSE Flag(r.id \in parentReleaseMatches)
      matches(r) == matchesCategory(r, node, parentMatch(r), effectiveInheritMode)
      showReleases == Get(node.showReleases) # JsFalse
      Shown(matching) == IF showReleases
                         THEN [i \in 1..Len(matching) |-> Clone(matching[i], node.name)]
                         ELSE <<>>
      shown == Shown(SelectSeq(releases, matches))
  IN  [processed |-> TRUE,
       latestMatch |-> effectiveLatestMatch,
       cutoffDate |-> effectiveCutoffDate,
       maxDisplayed |-> effectiveMaxDisplayed,
       inheritMode |-> effectiveInheritMode,
       releaseMatchResults |-> {releases[i].id : i \in {j \in 1..Len(releases) : matches(releases[j])}},
       releases |-> ScopeReleases(shown, effectiveCutoffDate, effectiveLatestMatch)]

\* One call of processNode: a top-level node is handed undefined five
\* times, a subcategory its parent's effective values and match results.
processNode(node) ==
  processNodeWith(node,
                  [latestMatch |-> Inherited(node, "latestMatch"),
                   cutoffDate |-> Inherited(node, "cutoffDate"),
                   maxDisplayed |-> Inherited(node, "maxDisplayed"),
                   inheritMode |-> Inherited(node, "inheritMode")],
                  IF node.parent = 0 THEN {} ELSE nodes[node.parent].releaseMatchResults)

\* Whether processNode throws on an invalid pattern: in the matching loop,
\* or in the latest selection of its release list.  `done` is what the
\* node's settings and matching come to when nothing throws.
processNodeThrows(node, done) ==
  \/ \E i \in 1..Len(releases) : OwnMatchersThrow(releases[i], node)
  \/ LET shown == IF Get(node.showReleases) # JsFalse
                  THEN SelectSeq(releases, LAMBDA r : r.id \in done.releaseMatchResults)
                  ELSE <<>>
     IN  ScopeThrows(shown, done.cutoffDate, done.latestMatch)

\* One call of processNode, children queued right behind their parent.
ProcessNode ==
  /\ pc = "nodes"
  /\ pending # <<>>
  /\ LET n == Head(pending)
         node == config.categories[n]
     IN  IF HasOwn(node.maxDisplayed) /\ ~MaxDisplayedValid(node.maxDisplayed)
         THEN /\ pc' = "failed"
              /\ error' = [context |-> "Category max-displayed", name |-> node.name]
              /\ UNCHANGED <<nodes, releases, matchedReleaseIds, pending>>
         ELSE \E done \in {processNode(node)} :
              IF processNodeThrows(node, done)
              THEN /\ pc' = "failed"
                   /\ error' = InvalidRegex
                   /\ UNCHANGED <<nodes, releases, matchedReleaseIds, pending>>
              ELSE /\ nodes' = [m \in 1..Len(nodes) |->
                                IF m = n THEN done
                                ELSE [nodes[m] EXCEPT
                                        !.releases = WriteIsLatest(@, done.releases)]]
                   /\ releases' = WriteIsLatest(releases, done.releases)
                   /\ matchedReleaseIds' =
                        addMatched(matchedReleaseIds, done.releaseMatchResults,
                                   Get(node.showReleases) # JsFalse)
                   /\ pending' = Children(config.categories, n) \o Tail(pending)
                   /\ UNCHANGED <<pc, error>>
  /\ UNCHANGED <<config, releaseData, configuredDefaults, tree,
                 unmatchedReleases, defaultMaxDisplayed, unmatchedMaxDisplayed, call, files, browser>>

\* filterEmptyCategories: a node stays when it has releases or a child stays.
RECURSIVE Kept(_, _, _)
Kept(categories, results, n) ==
  \/ Len(results[n].releases) > 0
  \/ \E i \in 1..Len(Children(categories, n)) :
       Kept(categories, results, Children(categories, n)[i])

\* filterEmptyCategories keeping a node for its own releases only.
filterEmptyCategoriesOwnOnly(categories, results) ==
  LET kept(n) == Len(results[n].releases) > 0
  IN  [roots |-> SelectSeq(Children(categories, 0), kept),
       children |-> [n \in 1..Len(categories) |->
                       IF kept(n) THEN SelectSeq(Children(categories, n), kept) ELSE <<>>]]

filterEmptyCategories(categories, results) ==
  LET kept(n) == Kept(categories, results, n)
  IN  [roots |-> SelectSeq(Children(categories, 0), kept),
       children |-> [n \in 1..Len(categories) |->
                       IF kept(n) THEN SelectSeq(Children(categories, n), kept) ELSE <<>>]]

\* The settings of the unmatched bucket.
UnmatchedCutoffDate ==
  IF HasOwn(config.unmatched.cutoffDate)
  THEN parseCutoffDate(config.unmatched.cutoffDate)
  ELSE configuredDefaults.cutoffDate

UnmatchedLatestMatch ==
  IF HasOwn(config.unmatched.latestMatch)
  THEN config.unmatched.latestMatch
  ELSE configuredDefaults.latestMatch

UnmatchedMaxDisplayedRaw ==
  IF HasOwn(config.unmatched.maxDisplayed)
  THEN config.unmatched.maxDisplayed
  ELSE configuredDefaults.maxDisplayed

\* releases.filter(r => !matchedReleaseIds.has(r.id)).map(clone)
collectUnmatched(rels, matched) ==
  LET rest == SelectSeq(rels, LAMBDA r : r.id \notin matched)
  IN  [i \in 1..Len(rest) |-> Clone(rest[i], "unmatched")]

\* The rest of classifyReleases once every node is processed.
Finish ==
  /\ pc = "nodes"
  /\ pending = <<>>
  /\ IF HasOwn(config.unmatched.maxDisplayed) /\ ~MaxDisplayedValid(config.unmatched.maxDisplayed)
     THEN /\ pc' = "failed"
          /\ error' = [context |-> "unmatched.max-displayed", name |-> ""]
          /\ UNCHANGED <<tree, unmatchedReleases, defaultMaxDisplayed, unmatchedMaxDisplayed,
                         nodes, releases>>
     ELSE IF ScopeThrows(collectUnmatched(releases, matchedReleaseIds),
                         UnmatchedCutoffDate, UnmatchedLatestMatch)
     THEN /\ pc' = "failed"
          /\ error' = InvalidRegex
          /\ UNCHANGED <<tree, unmatchedReleases, defaultMaxDisplayed, unmatchedMaxDisplayed,
                         nodes, releases>>
     ELSE \E unmatched \in {ScopeReleases(collectUnmatched(releases, matchedReleaseIds),
                                           UnmatchedCutoffDate, UnmatchedLatestMatch)} :
              /\ tree' = filterEmptyCategories(config.categories, nodes)
              /\ unmatchedReleases' = unmatched
              /\ nodes' = [m \in 1..Len(nodes) |->
                             [nodes[m] EXCEPT !.releases = WriteIsLatest(@, unmatched)]]
              /\ releases' = WriteIsLatest(releases, unmatched)
              /\ defaultMaxDisplayed' = FalseToNull(configuredDefaults.maxDisplayed)
              /\ unmatchedMaxDisplayed' = FalseToNull(UnmatchedMaxDisplayedRaw)
              /\ pc' = "done"
              /\ error' = error
  /\ UNCHANGED <<config, releaseData, configuredDefaults, matchedReleaseIds, pending, call, files, browser>>


(***************************************************************************)
(* Initial states of a run: three families of configurations.              *)
(***************************************************************************)
Names == <<"A", "B", "C", "D", "E", "F">>

NoSettings == [latestMatch |-> JsAbsent, cutoffDate |-> JsAbsent, maxDisplayed |-> JsAbsent]

Category(name, parent, m, inherit, show, settings) ==
  [name |-> name, parent |-> parent,
   title |-> m.title, titleNot |-> m.titleNot, tag |-> m.tag, tagNot |-> m.tagNot,
   body |-> m.body, bodyNot |-> m.bodyNot, assets |-> m.assets, assetsNot |-> m.assetsNot,
   isPrerelease |-> m.isPrerelease, isLatest |-> m.isLatest,
   matchAll |-> m.matchAll, matchAny |-> m.matchAny,
   latestMatch |-> settings.latestMatch, cutoffDate |-> settings.cutoffDate,
   maxDisplayed |-> settings.maxDisplayed,
   inheritParentMatchers |-> inherit, showReleases |-> show]

\* Every forest on n nodes in which a parent comes before its children.
Forests(n) == {f \in [1..n -> 0..(n - 1)] : \A i \in 1..n : f[i] < i}

\* The forests in which a node is top-level or the child of the node before it.
Chains(n) == {f \in Forests(n) : \A i \in 1..n : f[i] \in {0, i - 1}}

Ascending(n) == [i \in 1..n |-> ReleaseOf(i)]
Descending(n) == [i \in 1..n |-> ReleaseOf(n + 1 - i)]

TagV == [NoMatcher EXCEPT !.tag = Txt(<<"^", "v">>)]
NotBeta == [NoMatcher EXCEPT !.tagNot = Txt(<<"b", "$">>)]
TitleBe == [NoMatcher EXCEPT !.title = Txt(<<"b", "e">>)]
Prerelease == [NoMatcher EXCEPT !.isPrerelease = Flag(TRUE)]

\* Matchers, inherit-parent-matchers and show-releases of one category.
MatchProfiles ==
  {[m |-> TagV, inherit |-> JsAbsent, show |-> JsAbsent],
   [m |-> Prerelease, inherit |-> JsTrue, show |-> JsAbsent],
   [m |-> NoMatcher, inherit |-> JsAbsent, show |-> JsAbsent],
   [m |-> NoMatcher, inherit |-> JsStr("and"), show |-> JsAbsent],
   [m |-> NotBeta, inherit |-> JsStr("or"), show |-> JsAbsent],
   [m |-> TitleBe, inherit |-> JsFalse, show |-> JsFalse]}

\* latest-match, cutoff-date and max-displayed of one category.
SettingProfiles ==
  {NoSettings,
   [latestMatch |-> JsFalse, cutoffDate |-> JsFalse, maxDisplayed |-> JsNum(40)],
   [latestMatch |-> JsNull, cutoffDate |-> JsNull, maxDisplayed |-> JsNull],
   [latestMatch |-> JsStr("newest"), cutoffDate |-> JsIsoDate(Now - 15), maxDisplayed |-> JsFalse],
   [latestMatch |-> JsAbsent, cutoffDate |-> JsRelative(2, "w"), maxDisplayed |-> JsNum(0)]}

DefaultsProfiles ==
  {NoSettings,
   [latestMatch |-> JsFalse, cutoffDate |-> JsFalse, maxDisplayed |-> JsNum(100)],
   [latestMatch |-> JsNull, cutoffDate |-> JsIsoDate(Now - 15), maxDisplayed |-> JsFalse],
   [latestMatch |-> JsAbsent, cutoffDate |-> JsNull, maxDisplayed |-> JsNum(0)]}

UnmatchedProfiles ==
  {NoSettings,
   [latestMatch |-> JsFalse, cutoffDate |-> JsFalse, maxDisplayed |-> JsNum(40)],
   [latestMatch |-> JsNull, cutoffDate |-> JsNull, maxDisplayed |-> JsNull]}

FilterProfiles ==
  {NoFilter, Filter(NoMatcher), Filter(TagV), Filter(WithAny(NoMatcher, <<Prerelease>>))}

NoCutoff == [NoSettings EXCEPT !.cutoffDate = JsFalse]

\* Everything but the configuration and the fetched list.
InitRun ==
  /\ pc = "main"
  /\ files = NoFiles
  /\ browser = NoBrowser
  /\ call = [op |-> "none"]
  /\ releases = releaseData
  /\ configuredDefaults = [latestMatch |-> JsUndefined, cutoffDate |-> JsUndefined,
                           maxDisplayed |-> JsUndefined, inheritParentMatchers |-> JsUndefined]
  /\ matchedReleaseIds = {}
  /\ pending = <<>>
  /\ nodes = [i \in 1..Len(config.categories) |-> NotProcessed]
  /\ tree = [roots |-> <<>>, children |-> <<>>]
  /\ unmatchedReleases = <<>>
  /\ defaultMaxDisplayed = JsUndefined
  /\ unmatchedMaxDisplayed = JsUndefined
  /\ error = NoError

\* Matchers and matcher inheritance vary, no cutoff anywhere.
InitMatching ==
  /\ \E n \in 1..MaxNodes : \E parent \in Forests(n) : \E profile \in [1..n -> MatchProfiles] :
       config = [include |-> NoFilter, exclude |-> NoFilter,
                 defaults |-> NoCutoff, unmatched |-> NoSettings,
                 categories |-> [i \in 1..n |->
                    Category(Names[i], parent[i], profile[i].m, profile[i].inherit,
                             profile[i].show, NoSettings)]]
  /\ releaseData = Ascending(MaxReleases)
  /\ InitRun

\* The inheritable settings vary on the categories, the defaults and the
\* unmatched block.
InitSettings ==
  /\ \E n \in 1..MaxNodes : \E parent \in Chains(n) : \E profile \in [1..n -> SettingProfiles] :
     \E defaults \in DefaultsProfiles, unmatched \in UnmatchedProfiles :
       /\ defaults = NoSettings \/ unmatched = NoSettings
       /\ config = [include |-> NoFilter, exclude |-> NoFilter,
                    defaults |-> defaults, unmatched |-> unmatched,
                    categories |-> [i \in 1..n |->
                       Category(Names[i], parent[i], NotBeta, JsAbsent, JsAbsent, profile[i])]]
  /\ releaseData = Ascending(MaxReleases)
  /\ InitRun

\* The global include and exclude sections vary.
InitFilters ==
  /\ \E include \in FilterProfiles, exclude \in FilterProfiles :
       config = [include |-> include, exclude |-> exclude,
                 defaults |-> NoCutoff, unmatched |-> NoSettings,
                 categories |-> <<Category(Names[1], 0, NotBeta, JsAbsent, JsAbsent, NoSettings)>>]
  /\ \E n \in 1..MaxReleases : releaseData \in {Ascending(n), Descending(n)}
  /\ InitRun

\* The two shapes of a tree on n nodes used below: all top-level, one chain.
Shapes(n) == {[i \in 1..n |-> 0], [i \in 1..n |-> i - 1]}

\* A pattern new RegExp rejects.
Invalid == Txt(<<"(">>)

TagZ == [NoMatcher EXCEPT !.tag = Txt(<<"^", "z">>)]
TitleNotZ == [NoMatcher EXCEPT !.titleNot = Txt(<<"z">>)]
NewestAndPrerelease ==
  <<[NoMatcher EXCEPT !.isLatest = Flag(TRUE)], [NoMatcher EXCEPT !.isPrerelease = Flag(TRUE)]>>

\* Categories with an invalid pattern: behind a leaf no release passes, on
\* the first leaf, behind a match-any child, in latest-match; and one
\* without any.
PatternProfiles ==
  {[m |-> TagV, settings |-> NoSettings],
   [m |-> [TagZ EXCEPT !.body = Invalid], settings |-> NoSettings],
   [m |-> [NoMatcher EXCEPT !.titleNot = Invalid], settings |-> NoSettings],
   [m |-> WithAny(NoMatcher, <<TagV, [NoMatcher EXCEPT !.body = Invalid]>>),
    settings |-> NoSettings],
   [m |-> Prerelease,
    settings |-> [NoSettings EXCEPT
                    !.latestMatch = JsArray(<<[NoMatcher EXCEPT !.tag = Invalid]>>)]]}

\* include and exclude sections that keep every release, the stable "v"
\* releases, no release, and an include section that does not compile.
PatternFilters ==
  {<<NoFilter, NoFilter>>,
   <<Filter(TagV), Filter(Prerelease)>>,
   <<Filter(TagV), NoFilter>>,
   <<Filter([NoMatcher EXCEPT !.title = Invalid]), NoFilter>>}

\* Categories whose matchers may not compile.
InitPatterns ==
  /\ \E n \in 1..MaxNodes : \E parent \in Shapes(n) : \E profile \in [1..n -> PatternProfiles] :
     \E filters \in PatternFilters :
       config = [include |-> filters[1], exclude |-> filters[2],
                 defaults |-> NoCutoff, unmatched |-> NoSettings,
                 categories |-> [i \in 1..n |->
                    Category(Names[i], parent[i], profile[i].m, JsAbsent, JsAbsent,
                             profile[i].settings)]]
  /\ releaseData = Ascending(MaxReleases)
  /\ InitRun

\* Releases published in pairs on the same day, listed out of date order.
TiedRelease(id) == [ReleaseOf(id) EXCEPT !.publishedAt = Now - 10 * ((id + 1) \div 2)]
Rotated(n) == [i \in 1..n |-> TiedRelease((i % n) + 1)]

\* Overlapping categories with custom latest-match arrays, an unparseable
\* cutoff-date string, and max-displayed false.
ScopeProfiles ==
  {[m |-> TitleNotZ,
    settings |-> [latestMatch |-> JsArray(<<TagV>>), cutoffDate |-> JsFalse,
                  maxDisplayed |-> JsAbsent]],
   [m |-> NotBeta,
    settings |-> [latestMatch |-> JsArray(NewestAndPrerelease), cutoffDate |-> JsAbsent,
                  maxDisplayed |-> JsFalse]],
   [m |-> Prerelease,
    settings |-> [latestMatch |-> JsAbsent, cutoffDate |-> JsStr("soon"),
                  maxDisplayed |-> JsAbsent]],
   [m |-> TitleNotZ,
    settings |-> [latestMatch |-> JsNull, cutoffDate |-> JsIsoDate(Now - 20),
                  maxDisplayed |-> JsAbsent]],
   [m |-> TitleNotZ,
    settings |-> [latestMatch |-> JsArray(<<>>), cutoffDate |-> JsFalse,
                  maxDisplayed |-> JsNum(40)]]}

\* The defaults and unmatched sections going with them.
ScopeSections ==
  {<<NoCutoff, NoSettings>>,
   <<[latestMatch |-> JsArray(<<Prerelease>>), cutoffDate |-> JsFalse, maxDisplayed |-> JsFalse],
     [latestMatch |-> JsNull, cutoffDate |-> JsAbsent, maxDisplayed |-> JsAbsent]>>,
   <<[latestMatch |-> JsFalse, cutoffDate |-> JsStr("soon"), maxDisplayed |-> JsAbsent],
     [latestMatch |-> JsArray(<<NotBeta>>), cutoffDate |-> JsFalse, maxDisplayed |-> JsFalse]>>,
   <<NoCutoff, [NoSettings EXCEPT !.maxDisplayed = JsNum(-1)]>>}

InitScopes ==
  /\ \E n \in 1..MaxNodes : \E parent \in Shapes(n) : \E profile \in [1..n -> ScopeProfiles] :
     \E sections \in ScopeSections :
       config = [include |-> NoFilter, exclude |-> NoFilter,
                 defaults |-> sections[1], unmatched |-> sections[2],
                 categories |-> [i \in 1..n |->
                    Category(Names[i], parent[i], profile[i].m, JsAbsent, JsAbsent,
                             profile[i].settings)]]
  /\ releaseData = Rotated(MaxReleases)
  /\ InitRun

Init == InitMatching \/ InitSettings \/ InitFilters \/ InitPatterns \/ InitScopes

Next == ApplyGlobalFilters \/ ClassifyStart \/ ProcessNode \/ Finish

Spec == Init /\ [][Next]_vars

(***************************************************************************)
(* Properties of the pure functions, checked under SpecEval.               *)
(***************************************************************************)

\* C2: resolveValue follows the three-state protocol: key absent gives the
\* inherited value when there is one and the configured default otherwise;
\* explicit null gives the configured default whatever was inherited; any
\* other value, false included, is returned as it is.
C2_ResolveValueProtocol ==
  call.op = "resolveValue" =>
    /\ call.nodeValue = JsAbsent =>
         call.out = IF call.inheritedValue # JsUndefined
                    THEN call.inheritedValue ELSE call.configuredDefault
    /\ call.nodeValue = JsNull => call.out = call.configuredDefault
    /\ call.nodeValue \notin {JsAbsent, JsNull} => call.out = call.nodeValue

\* The round trip of the specification: parent 40, default 100, child null.
C2_Witness ==
  /\ call.op = "resolveValue"
  /\ call.nodeValue = JsNull
  /\ call.inheritedValue = JsNum(40)
  /\ call.configuredDefault = JsNum(100)
  /\ call.out = JsNum(100)

\* A matcher with every empty match-any / match-all key removed, at every depth.
RECURSIVE StripEmpty(_)
StripEmpty(m) ==
  [m EXCEPT
     !.matchAny = IF m.matchAny.def /\ m.matchAny.list # <<>>
                  THEN List([i \in 1..Len(m.matchAny.list) |-> StripEmpty(m.matchAny.list[i])])
                  ELSE NoList,
     !.matchAll = IF m.matchAll.def /\ m.matchAll.list # <<>>
                  THEN List([i \in 1..Len(m.matchAll.list) |-> StripEmpty(m.matchAll.list[i])])
                  ELSE NoList]

RECURSIVE HasEmptyAny(_)
HasEmptyAny(m) ==
  \/ m.matchAny = List(<<>>)
  \/ \E i \in 1..Len(m.matchAny.list) : HasEmptyAny(m.matchAny.list[i])
  \/ \E i \in 1..Len(m.matchAll.list) : HasEmptyAny(m.matchAll.list[i])

\* C8: in testMatcher an empty match-any and an empty match-all reject no
\* release, at any depth: the result is the one the matcher gives with its
\* empty combinators removed.
C8_EmptyCombinatorsVacuous ==
  call.op = "testMatcher" =>
    call.out = testMatcher(call.release, StripEmpty(call.matcher))

\* The half of C8 that the code has: an empty match-all alone never rejects.
C8_EmptyMatchAllVacuous ==
  (call.op = "testMatcher" /\ ~HasEmptyAny(call.matcher)) =>
    call.out = testMatcher(call.release, StripEmpty(call.matcher))

\* What the matchers of a category other than match-any say.
OtherMatchersAccept(release, category) ==
  /\ LeavesPass(release, DirectMatchers(category))
  /\ \A i \in 1..Len(category.matchAll.list) : testMatcher(release, category.matchAll.list[i])

DeclaresOtherMatchers(category) ==
  DirectMatchers(category) # NoMatcher \/ Len(category.matchAll.list) > 0

InheritanceApplies(c) == c.parentMatches.def /\ Truthy(c.inheritMode)

DeclaresNoMatchers(m) ==
  /\ \A leaf \in {m.title, m.titleNot, m.tag, m.tagNot, m.body, m.bodyNot,
                  m.assets, m.assetsNot} : ~leaf.def
  /\ ~m.isPrerelease.def /\ ~m.isLatest.def
  /\ m.matchAny.list = <<>> /\ m.matchAll.list = <<>>

\* C10: matchesFilter is true for every release when the filter is absent
\* or declares no matchers, matchesCategory is false for every release when
\* the category declares no matchers and inheritance does not apply, and
\* with matchers declared the two give the same result.
C10_OppositeDefaultsSameComposition ==
  /\ call.op = "matchesFilter" =>
       call.out = IF ~call.filter.def \/ DeclaresNoMatchers(call.filter.m)
                  THEN TRUE
                  ELSE matchesCategory(call.release, call.filter.m, NoFlag, JsFalse)
  /\ (call.op = "matchesCategory" /\ ~InheritanceApplies(call)
        /\ DeclaresNoMatchers(call.category)) => ~call.out

C10_Witness ==
  /\ call.op = "matchesFilter"
  /\ call.filter.def
  /\ Len(call.filter.m.matchAll.list) > 0
  /\ call.filter.m.tag.def
  /\ call.out

\* C7: a category with matchers and a parent result combines by AND under
\* inherit mode true or "and" and by OR under "or"; with inheritance
\* disabled, or without a parent result, its own result stands alone.
C7_CombineWithParent ==
  (call.op = "matchesCategory" /\ HasOwnMatchers(call.category)) =>
    LET own == OwnMatches(call.release, call.category)
        parent == call.parentMatches
    IN  /\ (parent.def /\ call.inheritMode \in {JsTrue, JsStr("and")}) =>
             call.out = (parent.b /\ own)
        /\ (parent.def /\ call.inheritMode = JsStr("or")) =>
             call.out = (parent.b \/ own)
        /\ (~parent.def \/ call.inheritMode \in {JsFalse, JsUndefined}) =>
             call.out = own

\* Mode "or" lets a release in that the category's own matchers reject.
C7_Witness ==
  /\ call.op = "matchesCategory"
  /\ HasOwnMatchers(call.category)
  /\ call.inheritMode = JsStr("or")
  /\ call.parentMatches = Flag(TRUE)
  /\ ~OwnMatches(call.release, call.category)
  /\ call.out

\* The regex leaves of a matcher against a release: pattern, field value,
\* and whether the leaf is a positive one.
RegexLeaves(release, matcher) ==
  {<<matcher.title, release.name, TRUE>>, <<matcher.titleNot, release.name, FALSE>>,
   <<matcher.tag, release.tag, TRUE>>, <<matcher.tagNot, release.tag, FALSE>>,
   <<matcher.body, release.body, TRUE>>, <<matcher.bodyNot, release.body, FALSE>>,
   <<matcher.assets, AssetNames(release), TRUE>>,
   <<matcher.assetsNot, AssetNames(release), FALSE>>}

\* C11: testMatcher is true exactly when every leaf present on the node
\* passes, every match-all child is true and, with match-any present, some
\* child of it is true; a -not leaf whose pattern matches rejects whatever
\* else the node says; is-prerelease and is-latest compare the release's
\* flag with the given boolean by strict equality (a release without the
\* flag equals neither) and are skipped when omitted.
C11_TestMatcherIsConjunction ==
  call.op = "testMatcher" =>
    LET r == call.release
        m == call.matcher
        regexLeavesPass ==
          \A leaf \in RegexLeaves(r, m) :
            leaf[1].def => (RegexTest(leaf[1].s, leaf[2]) <=> leaf[3])
        flagLeavesPass ==
          /\ m.isPrerelease.def => (r.prerelease <=> m.isPrerelease.b)
          /\ m.isLatest.def => (r.isLatest.def /\ (r.isLatest.b <=> m.isLatest.b))
        allChildren ==
          \A i \in 1..Len(m.matchAll.list) : testMatcher(r, m.matchAll.list[i])
        someChild ==
          \E i \in 1..Len(m.matchAny.list) : testMatcher(r, m.matchAny.list[i])
    IN  /\ call.out <=> /\ regexLeavesPass
                        /\ flagLeavesPass
                        /\ allChildren
                        /\ m.matchAny.def => someChild
        /\ (\E leaf \in RegexLeaves(r, m) :
              leaf[1].def /\ ~leaf[3] /\ RegexTest(leaf[1].s, leaf[2])) => ~call.out

\* A tag-not leaf rejects a release that a match-any child accepts.
C11_Witness ==
  /\ call.op = "testMatcher"
  /\ call.matcher.tagNot.def
  /\ RegexTest(call.matcher.tagNot.s, call.release.tag)
  /\ \E i \in 1..Len(call.matcher.matchAny.list) :
       testMatcher(call.release, call.matcher.matchAny.list[i])
  /\ ~call.out

\* A release with its missing text fields set to the empty string.
WithEmptyFields(release) ==
  [release EXCEPT !.name = IF release.name.def THEN release.name ELSE Txt(<<>>),
                  !.tag = IF release.tag.def THEN release.tag ELSE Txt(<<>>),
                  !.body = IF release.body.def THEN release.body ELSE Txt(<<>>)]

\* C12: testMatcher gives a release that lacks name, tag or body the result
\* it gives the same release with the empty string in that field, for every
\* pattern.
C12_MissingFieldIsEmptyString ==
  call.op = "testMatcher" =>
    call.out = testMatcher(WithEmptyFields(call.release), call.matcher)

\* The positions of a list whose release is published strictly after day d.
After(rels, d) == {i \in 1..Len(rels) : rels[i].publishedAt > d}

\* C14: with a date as cutoff, filterByCutoffDate keeps exactly the
\* releases published strictly after it, in their order, and drops one
\* published at the cutoff or before; with cutoff false it keeps them all.
C14_KeepsStrictlyAfterCutoff ==
  call.op = "filterByCutoffDate" =>
    /\ call.cutoffDate.t = "date" =>
          /\ Len(call.out) = Cardinality(After(call.releases, call.cutoffDate.n))
          /\ \A i \in 1..Len(call.out) : call.out[i].publishedAt > call.cutoffDate.n
          /\ \A i \in After(call.releases, call.cutoffDate.n) :
               call.out[Cardinality({j \in After(call.releases, call.cutoffDate.n) : j <= i})]
                 = call.releases[i]
    /\ call.spec = JsFalse => call.out = call.releases

\* One release sits exactly on the cutoff and is dropped, a later one stays.
C14_Witness ==
  /\ call.op = "filterByCutoffDate"
  /\ call.cutoffDate.t = "date"
  /\ \E i \in 1..Len(call.releases) :
       /\ call.releases[i].publishedAt = call.cutoffDate.n
       /\ call.releases[i].id \notin Ids(call.out)
  /\ call.out # <<>>

(***************************************************************************)
(* Properties of a generation run, checked under Spec.                     *)
(***************************************************************************)
Processed == {n \in 1..Len(nodes) : nodes[n].processed}

ParentOf(n) == config.categories[n].parent

\* C1: with no cutoff on the unmatched scope, the ids of unmatchedReleases
\* are the input ids minus the ids matched at any category node, nodes with
\* show-releases: false included.
C1_UnmatchedIsComplement ==
  (pc = "done" /\ UnmatchedCutoffDate \in {JsFalse, JsNull}) =>
    Ids(unmatchedReleases) =
      Ids(releases) \ UNION {nodes[n].releaseMatchResults : n \in 1..Len(nodes)}

\* A hidden node is the only one to match some release, and something is
\* left unmatched.
C1_Witness ==
  /\ pc = "done"
  /\ UnmatchedCutoffDate = JsFalse
  /\ unmatchedReleases # <<>>
  /\ \E n \in 1..Len(nodes) :
       /\ config.categories[n].showReleases = JsFalse
       /\ \E id \in nodes[n].releaseMatchResults :
            \A m \in 1..Len(nodes) : m # n => id \notin nodes[m].releaseMatchResults

\* The configured default of a setting as a node of the tree sees it.
DefaultOf(key) ==
  IF key = "maxDisplayed" THEN FalseToNull(configuredDefaults.maxDisplayed)
  ELSE configuredDefaults[key]

\* The value a category declares for a setting, as the tree stores it.
DeclaredValue(node, key) ==
  CASE key = "cutoffDate" -> parseCutoffDate(node.cutoffDate)
    [] key = "maxDisplayed" -> FalseToNull(node.maxDisplayed)
    [] OTHER -> node[key]

\* C3: a category that does not declare latest-match, cutoff-date or
\* max-displayed has its parent's effective value (the configured default
\* at top level); one that declares a value has that value, one that
\* declares null has the configured default; at every depth.
C3_SettingsInheritedDownTheTree ==
  \A n \in Processed : \A key \in {"latestMatch", "cutoffDate", "maxDisplayed"} :
    LET node == config.categories[n]
    IN  nodes[n][key] =
          IF ~HasOwn(node[key])
          THEN IF node.parent = 0 THEN DefaultOf(key) ELSE nodes[node.parent][key]
          ELSE IF node[key] = JsNull THEN DefaultOf(key)
          ELSE DeclaredValue(node, key)

\* Three levels: 40 set at the top, reset with null below it, and the
\* reset value, not 40, inherited by the grandchild.
C3_Witness ==
  /\ pc = "done"
  /\ \E n \in Processed :
       /\ ParentOf(n) # 0
       /\ ParentOf(ParentOf(n)) # 0
       /\ config.categories[n].maxDisplayed = JsAbsent
       /\ config.categories[ParentOf(n)].maxDisplayed = JsNull
       /\ nodes[ParentOf(ParentOf(n))].maxDisplayed = JsNum(40)
       /\ nodes[n].maxDisplayed = JsNum(100)

\* C4: a fetched release is handed to classification exactly when it
\* matches the include section (an absent one imposes nothing) and does not
\* match the exclude section (an absent or condition-free one excludes
\* nothing).
C4_GlobalFiltersPassExactly ==
  pc # "main" =>
    \A i \in 1..Len(releaseData) :
      LET r == releaseData[i]
          included == ~config.include.def \/ OwnMatches(r, config.include.m)
          excluded == /\ config.exclude.def
                      /\ HasOwnMatchers(config.exclude.m)
                      /\ OwnMatches(r, config.exclude.m)
      IN  (r.id \in Ids(releases)) <=> (included /\ ~excluded)

\* The inherit-parent-matchers value the configuration gives a node: its
\* own, else the one of the nearest ancestor declaring the key, else the
\* default false; an explicit null is the default.
RECURSIVE DeclaredInheritMode(_)
DeclaredInheritMode(n) ==
  LET own == config.categories[n].inheritParentMatchers
  IN  IF HasOwn(own) THEN (IF own = JsNull THEN JsFalse ELSE own)
      ELSE IF ParentOf(n) = 0 THEN JsFalse
      ELSE DeclaredInheritMode(ParentOf(n))

\* C5 as stated: a category without matchers that does not itself declare
\* inherit-parent-matchers matches no release, whatever its ancestors declare.
C5_ContainerMatchesNothing ==
  \A n \in Processed :
    (/\ DeclaresNoMatchers(config.categories[n])
     /\ ~HasOwn(config.categories[n].inheritParentMatchers))
    => nodes[n].releaseMatchResults = {}

\* C5 amended: a category without matchers that does not itself declare
\* inherit-parent-matchers matches no release, whatever its parent matched,
\* unless an ancestor's inherit-parent-matchers reaches it enabled.
C5_ContainerMatchesNothingUnlessInherited ==
  \A n \in Processed :
    (/\ DeclaresNoMatchers(config.categories[n])
     /\ ~HasOwn(config.categories[n].inheritParentMatchers)
     /\ ~Truthy(DeclaredInheritMode(n)))
    => nodes[n].releaseMatchResults = {}

\* A container below a parent that matched something stays empty.
C5_Witness ==
  \E n \in Processed :
    /\ DeclaresNoMatchers(config.categories[n])
    /\ ~HasOwn(config.categories[n].inheritParentMatchers)
    /\ ~Truthy(DeclaredInheritMode(n))
    /\ ParentOf(n) # 0
    /\ nodes[ParentOf(n)].releaseMatchResults # {}
    /\ nodes[n].releaseMatchResults = {}

\* C6: a category without matchers, with inheritance enabled and with a
\* parent category matches exactly the releases its parent matched.
C6_ContainerFollowsParent ==
  \A n \in Processed :
    (/\ DeclaresNoMatchers(config.categories[n])
     /\ Truthy(DeclaredInheritMode(n))
     /\ ParentOf(n) # 0)
    => nodes[n].releaseMatchResults = nodes[ParentOf(n)].releaseMatchResults

\* The parent matched some releases and not others, and so did the container.
C6_Witness ==
  \E n \in Processed :
    /\ DeclaresNoMatchers(config.categories[n])
    /\ Truthy(DeclaredInheritMode(n))
    /\ ParentOf(n) # 0
    /\ nodes[n].releaseMatchResults # {}
    /\ nodes[n].releaseMatchResults # Ids(releases)
    /\ nodes[n].releaseMatchResults = nodes[ParentOf(n)].releaseMatchResults

\* An invalid pattern somewhere in a matcher, at any depth.
RECURSIVE HasInvalidPattern(_)
HasInvalidPattern(m) ==
  \/ \E leaf \in {m.title, m.titleNot, m.tag, m.tagNot, m.body, m.bodyNot,
                  m.assets, m.assetsNot} : LeafThrows(leaf)
  \/ \E i \in 1..Len(m.matchAll.list) : HasInvalidPattern(m.matchAll.list[i])
  \/ \E i \in 1..Len(m.matchAny.list) : HasInvalidPattern(m.matchAny.list[i])

CategoryHasInvalidPattern(category) ==
  \/ HasInvalidPattern(category)
  \/ \E i \in 1..Len(category.latestMatch.ms) : HasInvalidPattern(category.latestMatch.ms[i])

\* C13: a configuration with an invalid regex pattern in one of its
\* categories never gets a classification result: the run aborts, whatever
\* the releases and the other matchers of the node.
C13_InvalidPatternAborts ==
  (\E n \in 1..Len(config.categories) : CategoryHasInvalidPattern(config.categories[n]))
    => pc # "done"

\* A string that is neither a relative shorthand nor a parseable date.
Unparseable(cutoffDate) == cutoffDate.t = "str" /\ cutoffDate.s # ""

\* C15: a configuration with such a cutoff-date string, on a category, in
\* defaults or in unmatched, never gets a classification result.
C15_UnparseableCutoffAborts ==
  (\/ \E n \in 1..Len(config.categories) : Unparseable(config.categories[n].cutoffDate)
   \/ Unparseable(config.defaults.cutoffDate)
   \/ Unparseable(config.unmatched.cutoffDate))
    => pc # "done"

\* Position of a release in the list handed to classifyReleases.
PosIn(rels, id) == CHOOSE i \in 1..Len(rels) : rels[i].id = id

\* The latest rule of one scope: its release list and effective latest-match.
NewestOnlyRule(list, latestMatch) ==
  /\ latestMatch = JsFalse => \A i \in 1..Len(list) : list[i].isLatest # Flag(TRUE)
  /\ (latestMatch \in {JsNull, JsUndefined, JsStr("newest")} /\ list # <<>>) =>
       /\ list[1].isLatest = Flag(TRUE)
       /\ \A i \in 2..Len(list) : list[i].isLatest # Flag(TRUE)
       /\ \A i \in 1..Len(list) : list[1].publishedAt >= list[i].publishedAt

\* C16: in every category and in the unmatched bucket, with an effective
\* latest-match of false no release is marked isLatest; with null, unset or
\* "newest" and a non-empty list exactly one is, it has the newest
\* publishedAt and it is first in the list.
C16_NewestOnlyOrNone ==
  /\ \A n \in Processed : NewestOnlyRule(nodes[n].releases, nodes[n].latestMatch)
  /\ pc = "done" => NewestOnlyRule(unmatchedReleases, UnmatchedLatestMatch)

\* A category of several releases with the newest marked, the input list
\* not being in date order.
C16_Witness ==
  /\ pc = "done"
  /\ \E n \in Processed :
       /\ nodes[n].latestMatch \in {JsNull, JsStr("newest")}
       /\ Len(nodes[n].releases) >= 2
       /\ nodes[n].releases[1].isLatest = Flag(TRUE)
       /\ nodes[n].releases[2].isLatest = Flag(FALSE)
       /\ PosIn(releases, nodes[n].releases[1].id) > 1

\* The newest release of a scope: the latest publishedAt, the first of the
\* input list among equals.
IsNewestOf(list, r) ==
  \A i \in 1..Len(list) :
    \/ r.publishedAt > list[i].publishedAt
    \/ /\ r.publishedAt = list[i].publishedAt
       /\ PosIn(releases, r.id) <= PosIn(releases, list[i].id)

\* The releases of a scope marked isLatest are those passing every matcher
\* of the array, is-latest standing for "is the newest of the scope".
MatchersRule(list, latestMatch) ==
  latestMatch.t = "arr" =>
    \A i \in 1..Len(list) :
      (list[i].isLatest = Flag(TRUE)) <=>
        \A k \in 1..Len(latestMatch.ms) :
          testMatcher([list[i] EXCEPT !.isLatest = Flag(IsNewestOf(list, list[i]))],
                      latestMatch.ms[k])

\* C17: with an array as effective latest-match, the releases of the scope
\* marked isLatest are exactly those for which every matcher of the array
\* holds, evaluated with isLatest true for the newest release of the scope
\* only.
C17_LatestByMatchers ==
  /\ \A n \in Processed : MatchersRule(nodes[n].releases, nodes[n].latestMatch)
  /\ pc = "done" => MatchersRule(unmatchedReleases, UnmatchedLatestMatch)

\* Two releases marked and one not in one category, and in another the
\* matchers mark nothing.
C17_Witness ==
  /\ \E n \in Processed :
       /\ nodes[n].latestMatch.t = "arr"
       /\ Cardinality({i \in 1..Len(nodes[n].releases) :
                         nodes[n].releases[i].isLatest = Flag(TRUE)}) >= 2
       /\ \E i \in 1..Len(nodes[n].releases) : nodes[n].releases[i].isLatest = Flag(FALSE)
  /\ \E n \in Processed :
       /\ nodes[n].latestMatch.t = "arr"
       /\ nodes[n].releases # <<>>
       /\ \A i \in 1..Len(nodes[n].releases) : nodes[n].releases[i].isLatest = Flag(FALSE)

\* The order of one scope's list.
LatestFirstOrder(list) ==
  \A i, j \in 1..Len(list) :
    i < j =>
      /\ list[j].isLatest = Flag(TRUE) => list[i].isLatest = Flag(TRUE)
      /\ list[i].isLatest = list[j].isLatest =>
           /\ list[i].publishedAt >= list[j].publishedAt
           /\ list[i].publishedAt = list[j].publishedAt =>
                PosIn(releases, list[i].id) < PosIn(releases, list[j].id)

\* C18: every scope's list has its isLatest releases first, and within the
\* latest and the other group is ordered by publishedAt descending, with
\* releases of equal publishedAt in their input order.
C18_LatestFirstThenByDate ==
  /\ \A n \in Processed : LatestFirstOrder(nodes[n].releases)
  /\ pc = "done" => LatestFirstOrder(unmatchedReleases)

\* A list with both groups where two latest releases share a date and stand
\* in input order, against the order of their ids, ahead of a newer or
\* equally new release that is not latest.
C18_Witness ==
  \E n \in Processed :
    LET list == nodes[n].releases
    IN  /\ Len(list) >= 3
        /\ list[1].isLatest = Flag(TRUE) /\ list[2].isLatest = Flag(TRUE)
        /\ list[1].publishedAt = list[2].publishedAt
        /\ list[1].id > list[2].id
        /\ list[Len(list)].isLatest = Flag(FALSE)

\* Every list of release objects a run holds besides the input list.
ScopeLists ==
  {<<config.categories[n].name, nodes[n].releases>> : n \in Processed}
  \cup {<<"unmatched", unmatchedReleases>>}

\* No object is in two lists, and none of the input objects is in a list.
CopiesAreDistinct ==
  \A a, b \in ScopeLists :
    /\ \A i \in 1..Len(a[2]) : a[2][i].obj = a[1]
    /\ a[1] # b[1] =>
         \A i \in 1..Len(a[2]), j \in 1..Len(b[2]) : ~SameObject(a[2][i], b[2][j])

\* The input list as main handed it over: same records, same order, no isLatest.
InputIntact == releases = globalFilter(releaseData, config.include, config.exclude)

\* C19: the copies of a release in the categories that match it and in the
\* unmatched bucket are separate objects, separate from the input object; a
\* step that marks one scope's copies leaves every other scope's list as it
\* was; and the input list and its records are never modified by
\* classifyReleases.
C19_IndependentCopies ==
  /\ [](CopiesAreDistinct /\ (pc \in {"nodes", "done"} => InputIntact))
  /\ [][/\ \A n \in Processed : nodes'[n] = nodes[n]
        /\ pc # "main" => releases' = releases]_vars

\* One release, two categories: latest in one, not latest in the other.
C19_Witness ==
  /\ pc = "done"
  /\ \E n, m \in Processed :
       \E i \in 1..Len(nodes[n].releases), j \in 1..Len(nodes[m].releases) :
         /\ nodes[n].releases[i].id = nodes[m].releases[j].id
         /\ nodes[n].releases[i].isLatest = Flag(TRUE)
         /\ nodes[m].releases[j].isLatest = Flag(FALSE)

\* C20: no category node carries max-displayed false, and neither do
\* defaultMaxDisplayed and unmatchedMaxDisplayed: false declared on the
\* node, false reached through the default, and false in the defaults or
\* unmatched section are all stored as null, and a node that does not
\* declare the key below a node storing null stores null.
C20_FalseStoredAsNull ==
  /\ \A n \in Processed :
       LET own == config.categories[n].maxDisplayed
           defaulted == own = JsNull \/ (own = JsAbsent /\ ParentOf(n) = 0)
       IN  /\ nodes[n].maxDisplayed # JsFalse
           /\ own = JsFalse => nodes[n].maxDisplayed = JsNull
           /\ (defaulted /\ configuredDefaults.maxDisplayed = JsFalse) =>
                nodes[n].maxDisplayed = JsNull
           /\ (own = JsAbsent /\ ParentOf(n) # 0 /\ nodes[ParentOf(n)].maxDisplayed = JsNull) =>
                nodes[n].maxDisplayed = JsNull
  /\ pc = "done" =>
       /\ defaultMaxDisplayed # JsFalse /\ unmatchedMaxDisplayed # JsFalse
       /\ configuredDefaults.maxDisplayed = JsFalse => defaultMaxDisplayed = JsNull
       /\ UnmatchedMaxDisplayedRaw = JsFalse => unmatchedMaxDisplayed = JsNull

\* A category declares false while the default is 100, and its child, which
\* declares nothing, stores null.
C20_Witness ==
  /\ pc = "done"
  /\ configuredDefaults.maxDisplayed = JsNum(100)
  /\ \E n \in Processed :
       /\ ParentOf(n) # 0
       /\ config.categories[n].maxDisplayed = JsAbsent
       /\ config.categories[ParentOf(n)].maxDisplayed = JsFalse
       /\ nodes[ParentOf(n)].maxDisplayed = JsNull
       /\ nodes[n].maxDisplayed = JsNull

\* A max-displayed value that is a number below 1.
BelowOne(value) == value.t = "num" /\ value.n < 1

\* The category nodes visited before node n, in the order of the walk:
\* parents before children, a subtree before the next sibling.
RECURSIVE RootPath(_)
RootPath(n) == IF ParentOf(n) = 0 THEN <<n>> ELSE Append(RootPath(ParentOf(n)), n)

\* C21: with max-displayed zero or negative in defaults, on a category of
\* any depth or in unmatched, classifyReleases never returns a result and
\* the run fails; an error about a category names a category whose value
\* is below 1; and a max-displayed error is raised for no other value:
\* false, null, an absent key and numbers from 1 pass.
C21_MaxDisplayedBelowOneIsFatal ==
  LET badCategories == {n \in 1..Len(config.categories) :
                          BelowOne(config.categories[n].maxDisplayed)}
      badDefaults == BelowOne(config.defaults.maxDisplayed)
      badUnmatched == BelowOne(config.unmatched.maxDisplayed)
  IN  /\ (badCategories # {} \/ badDefaults \/ badUnmatched) => pc # "done"
      /\ badDefaults => pc \in {"main", "classify", "failed"}
      /\ \A n \in badCategories : ~nodes[n].processed
      /\ (pc = "failed" /\ error.context = "Category max-displayed") =>
           \E n \in badCategories : config.categories[n].name = error.name
      /\ (pc = "failed" /\ error.context = "defaults.max-displayed") => badDefaults
      /\ (pc = "failed" /\ error.context = "unmatched.max-displayed") => badUnmatched

\* The run fails at a category of the third level, after its ancestors
\* were processed, and the error carries that category's name.
C21_Witness ==
  /\ pc = "failed"
  /\ error.context = "Category max-displayed"
  /\ \E n \in 1..Len(config.categories) :
       /\ Len(RootPath(n)) >= 3
       /\ config.categories[n].name = error.name
       /\ config.categories[n].maxDisplayed = JsNum(0)
       /\ nodes[ParentOf(n)].processed

\* The nodes of the output tree: the kept top-level nodes and everything
\* reached from them through the kept children.
RECURSIVE TreeNodesFrom(_)
TreeNodesFrom(list) ==
  IF list = <<>> THEN {}
  ELSE {Head(list)} \cup TreeNodesFrom(tree.children[Head(list)]) \cup TreeNodesFrom(Tail(list))

\* Node d is node n or below it.
RECURSIVE IsWithin(_, _)
IsWithin(d, n) == d = n \/ (ParentOf(d) # 0 /\ IsWithin(ParentOf(d), n))

HasReleasesWithin(n) ==
  \E d \in 1..Len(nodes) : IsWithin(d, n) /\ Len(nodes[d].releases) > 0

Increasing(list) == \A i, j \in 1..Len(list) : i < j => list[i] < list[j]

\* C22: the output tree holds a category exactly when, after the cutoff, it
\* or one of its descendants has a release; every kept node lists exactly
\* its kept children, and kept siblings stand in their configured order.
C22_TreeHoldsNonEmptySubtrees ==
  pc = "done" =>
    /\ TreeNodesFrom(tree.roots) = {n \in 1..Len(nodes) : HasReleasesWithin(n)}
    /\ Increasing(tree.roots)
    /\ \A i \in 1..Len(tree.roots) : ParentOf(tree.roots[i]) = 0
    /\ \A n \in TreeNodesFrom(tree.roots) :
         /\ Increasing(tree.children[n])
         /\ \A i \in 1..Len(tree.children[n]) : ParentOf(tree.children[n][i]) = n

\* A category without any release of its own is kept for a descendant, and
\* another one that matched releases and lost them all to the cutoff is gone.
C22_Witness ==
  /\ pc = "done"
  /\ \E n \in TreeNodesFrom(tree.roots) :
       /\ nodes[n].releases = <<>>
       /\ \E d \in TreeNodesFrom(tree.roots) : d # n /\ IsWithin(d, n)
  /\ \E n \in 1..Len(nodes) :
       /\ n \notin TreeNodesFrom(tree.roots)
       /\ nodes[n].releaseMatchResults # {}

\* What processNode gives for node n when only n's ancestor chain is
\* processed, from the top-level ancestor down: no sibling and no earlier
\* match takes part.
RECURSIVE ChainResult(_)
ChainResult(n) ==
  LET node == config.categories[n]
  IN  IF node.parent = 0
      THEN processNodeWith(node,
                           [latestMatch |-> JsUndefined, cutoffDate |-> JsUndefined,
                            maxDisplayed |-> JsUndefined, inheritMode |-> JsUndefined],
                           {})
      ELSE LET above == ChainResult(node.parent)
           IN  processNodeWith(node,
                               [latestMatch |-> above.latestMatch,
                                cutoffDate |-> above.cutoffDate,
                                maxDisplayed |-> above.maxDisplayed,
                                inheritMode |-> above.inheritMode],
                               above.releaseMatchResults)

\* C23: in the result, the release list of a category, isLatest flags
\* included, is what its own configuration, its ancestor chain, the defaults
\* and the input releases give; its siblings and the releases other
\* categories matched earlier have no part in it.
C23_OnlyAncestorsCount ==
  pc = "done" =>
    \A n \in 1..Len(nodes) : nodes[n].releases = ChainResult(n).releases

\* A release stands in the lists of two sibling categories, the second
\* processed after the first had matched it, and the two mark it
\* differently.
C23_Witness ==
  /\ pc = "done"
  /\ \E n, m \in 1..Len(nodes) :
       /\ n < m
       /\ ParentOf(n) = ParentOf(m)
       /\ \E i \in 1..Len(nodes[n].releases), j \in 1..Len(nodes[m].releases) :
            /\ nodes[n].releases[i].id = nodes[m].releases[j].id
            /\ nodes[n].releases[i].isLatest # nodes[m].releases[j].isLatest

\* The value the category protocol gives the unmatched block for one
\* setting: the block has no parent, so nothing is inherited.
UnmatchedByProtocol(declared, configuredDefault) ==
  resolveValue(Get(declared), JsUndefined, configuredDefault, HasOwn(declared))

\* C24: the unmatched block follows the protocol of a category for
\* latest-match, cutoff-date and max-displayed: an absent key and an
\* explicit null both give the configured default, any other value (false
\* included) is used as given.
C24_UnmatchedFollowsCategoryProtocol ==
  pc = "done" =>
    /\ unmatchedMaxDisplayed =
         FalseToNull(UnmatchedByProtocol(config.unmatched.maxDisplayed,
                                         configuredDefaults.maxDisplayed))
    /\ unmatchedReleases =
         ScopeReleases(collectUnmatched(releases, matchedReleaseIds),
                       UnmatchedByProtocol(
                         IF HasOwn(config.unmatched.cutoffDate)
                         THEN parseCutoffDate(config.unmatched.cutoffDate)
                         ELSE JsUndefined,
                         configuredDefaults.cutoffDate),
                       UnmatchedByProtocol(config.unmatched.latestMatch,
                                           configuredDefaults.latestMatch))

\* Whether a cutoff keeps a release.
KeptByCutoff(release, cutoffDate) == filterByCutoffDate(<<release>>, cutoffDate) # <<>>

MatchedBy(release) == {n \in 1..Len(nodes) : release.id \in nodes[n].releaseMatchResults}

\* The release is in no category's list and not in the unmatched list.
Lost(release) ==
  /\ \A n \in 1..Len(nodes) : release.id \notin Ids(nodes[n].releases)
  /\ release.id \notin Ids(unmatchedReleases)

\* C28: in the result, a release handed to classifyReleases is in the list
\* of a category that matched it or in the unmatched list, unless cutoff
\* dates exclude it: the unmatched cutoff for a release no category matched;
\* for a matched release the cutoff of every category that matched it, and
\* then the unmatched cutoff must not be one that would keep it.
C28_NoReleaseSilentlyLost ==
  pc = "done" =>
    \A i \in 1..Len(releases) :
      Lost(releases[i]) =>
        /\ ~KeptByCutoff(releases[i], UnmatchedCutoffDate)
        /\ \A n \in MatchedBy(releases[i]) : ~KeptByCutoff(releases[i], nodes[n].cutoffDate)

Slash == <<"/">>

\* C25 as stated: a nested category's id is its parent's id, a slash and
\* the slug of its name; equal slugs under one parent give equal ids, and
\* the map keeps the later of the two.
C25_NestedIdIsParentSlashSlug ==
  call.op = "assignCategoryIds" =>
    \A n \in 1..Len(call.categories) :
      /\ call.ids[n] =
           IF call.categories[n].parent = 0 THEN slugify(call.categories[n].name)
           ELSE call.ids[call.categories[n].parent] \o Slash \o slugify(call.categories[n].name)
      /\ \A m \in 1..Len(call.categories) :
           ( /\ n < m
             /\ call.categories[m].parent = call.categories[n].parent
             /\ slugify(call.categories[m].name) = slugify(call.categories[n].name) )
           => call.ids[m] = call.ids[n] /\ call.out[call.ids[n]] # n

\* C25, amended: the slash and the parent's id are left out when the
\* parent's id is empty; equal slugs under one parent give equal ids; the
\* map holds, under an id, the category with that id the walk visits last.
C25_IdIsSlugUnderNonEmptyParentId ==
  call.op = "assignCategoryIds" =>
    LET order == VisitOrder(call.categories, Children(call.categories, 0))
        at(n) == CHOOSE k \in 1..Len(order) : order[k] = n
    IN  \A n \in 1..Len(call.categories) :
          /\ call.ids[n] =
               IF call.categories[n].parent = 0 \/ call.ids[call.categories[n].parent] = <<>>
               THEN slugify(call.categories[n].name)
               ELSE call.ids[call.categories[n].parent] \o Slash
                      \o slugify(call.categories[n].name)
          /\ call.ids[call.out[call.ids[n]]] = call.ids[n]
          /\ \A m \in 1..Len(call.categories) :
               /\ ( /\ call.categories[m].parent = call.categories[n].parent
                    /\ slugify(call.categories[m].name) = slugify(call.categories[n].name) )
                  => call.ids[m] = call.ids[n]
               /\ call.ids[m] = call.ids[n] => at(m) <= at(call.out[call.ids[n]])

\* Two subcategories of one parent with different names and one slug: they
\* share an id that holds a slash, and the map holds the second.
C25_Witness ==
  /\ call.op = "assignCategoryIds"
  /\ \E n, m \in 1..Len(call.categories) :
       /\ n < m
       /\ call.categories[n].parent # 0
       /\ call.categories[m].parent = call.categories[n].parent
       /\ call.categories[n].name # call.categories[m].name
       /\ call.ids[n] = call.ids[m]
       /\ \E i \in 1..Len(call.ids[n]) : call.ids[n][i] = "/"
       /\ call.out[call.ids[n]] = m

\* C26: fetchAllReleases with max-releases N returns the first N releases
\* of the source, in its order (all of them when it holds fewer), and with
\* false all of them; totalCount is the number of releases the source
\* holds; the loop ends on the first page that is empty or holds fewer than
\* perPage entries, every page before it being full.
C26_FirstNAndFullCount ==
  /\ pc = "returned" =>
       LET listed == IF call.maxReleases = JsFalse THEN call.existing
                     ELSE Min(call.maxReleases.n, call.existing)
       IN  /\ releaseData.releases = [i \in 1..listed |-> i]
           /\ releaseData.totalCount = call.existing
  /\ (call.source = "api" /\ pc \in {"fetching", "fetched", "returned"}) =>
       /\ \A page \in 1..(call.page - 1) : Len(PageData(call.existing, page)) = perPage
       /\ pc # "fetching" => Len(PageData(call.existing, call.page)) < perPage

\* The limit is reached in the middle of the second page of two full
\* pages: the third, empty page ends the loop, and the count is that of
\* both pages.
C26_Witness ==
  /\ pc = "returned"
  /\ call.source = "api"
  /\ call.page = 3
  /\ Len(releaseData.releases) = perPage + 50
  /\ releaseData.totalCount = 2 * perPage

\* C27: when classification or a content generation step has thrown, the
\* run has written nothing to the output directory; a run only starts
\* writing there once every content step has written to the temporary
\* directory; and when main has ended, with or without an error, the
\* temporary directory does not exist.
C27_NoPartialOutput ==
  /\ call.thrown \in {"classification", "favicon check", "content generation"}
       => files.outputDir = NoDir
  /\ files.outputDir # NoDir
       => call.written = Len(ContentSteps(call.multiPage, call.favicon))
  /\ pc = "exited" => files.tempDir = NoDir

\* A multi-page run that had written the index and the category pages to
\* the temporary directory when a later step threw, and has ended.
C27_Witness ==
  /\ pc = "exited"
  /\ call.thrown = "content generation"
  /\ call.multiPage
  /\ call.written >= 2

\* The releases of the pages from page `from` on, one after the other.
RECURSIVE PagesJoined(_, _)
PagesJoined(pages, from) ==
  IF from > Len(pages) THEN <<>> ELSE pages[from].releases \o PagesJoined(pages, from + 1)

\* C29: the pages of a category hold, one after the other, the first
\* min(maxDisplayed, total) releases of the category, each once; there are
\* ceil(displayed / pageSize) pages, one when the page size is unlimited;
\* every page but the last is full; the banner is on no page but the last.
C29_PagesPartitionDisplayed ==
  call.op = "generateCategoryPages" =>
    LET total == Len(call.category.releases)
        displayed == IF call.category.maxDisplayed = JsNull THEN total
                     ELSE Min(call.category.maxDisplayed.n, total)
        pages == call.out.pages
    IN  /\ PagesJoined(pages, 1) = [i \in 1..displayed |-> call.category.releases[i]]
        /\ call.out.pageCount = Len(pages)
        /\ call.pageSize = JsNull => Len(pages) = 1
        /\ call.pageSize # JsNull =>
             /\ Len(pages) * call.pageSize.n >= displayed
             /\ (Len(pages) - 1) * call.pageSize.n < displayed
             /\ \A k \in 1..(Len(pages) - 1) : Len(pages[k].releases) = call.pageSize.n
        /\ \A k \in 1..Len(pages) : pages[k].banner => k = Len(pages)

\* A truncated category whose displayed releases fill two pages and part
\* of a third, with the banner on the third.
C29_Witness ==
  /\ call.op = "generateCategoryPages"
  /\ call.category.maxDisplayed # JsNull
  /\ Len(call.category.releases) > call.category.maxDisplayed.n
  /\ Len(call.out.pages) = 3
  /\ Len(call.out.pages[3].releases) < Len(call.out.pages[1].releases)
  /\ call.out.pages[3].banner

\* C30: once every load has completed (none failed, none pending, one call
\* at least), the page shows the category and the page of the latest
\* selectCategory call: the globals, the URL and the release list agree
\* with it; and currentPage is always a page of the displayed category.
C30_LatestCallWins ==
  /\ ( /\ browser.loads # <<>>
       /\ \A i \in 1..Len(browser.loads) : browser.loads[i].at = "done" ) =>
       LET latest == browser.loads[Len(browser.loads)]
       IN  /\ browser.currentCategoryId = latest.categoryId
           /\ browser.currentPage = Clamp(latest.page, pageCountOf(latest.categoryId))
           /\ browser.url = [categoryId |-> latest.categoryId, page |-> browser.currentPage]
           /\ browser.releasesList.categoryId = latest.categoryId
  /\ browser.currentCategoryId # "null" =>
       browser.currentPage \in 1..pageCountOf(browser.currentCategoryId)

====
